---- MODULE Spec2Model ----
(***************************************************************************)
(* Model of the GitHub star manager agent: the interactive session of      *)
(* StarManagerAgent (run, mainLoop, plan generation, executePlan), the     *)
(* GitHubClient write requests as seen by the GitHub server, and the       *)
(* BackupManager (createBackup, restore).                                  *)
(*                                                                         *)
(* The remote GitHub account is part of the state: the starred set, the    *)
(* user lists and the list membership of every repository.  The answers    *)
(* of the LLM and of the user are inputs drawn from small sets.            *)
(***************************************************************************)
EXTENDS Integers, Sequences, FiniteSets, TLC

(***************************************************************************)
(* Bounds of the model                                                     *)
(***************************************************************************)
MaxAdds == 13        \* add_to_list actions of the large plans of SpecExec
MaxUnstars == 11     \* unstar actions of the large plans of SpecExec
MaxLists == 3        \* lists the account may hold (the server refuses more)
MaxOps == 2          \* operations chosen from the main menu in one session
MaxFinalized == 2    \* lists the user lets the list editor hold
MaxSuggestions == 2  \* entries of one LLM answer

(***************************************************************************)
(* Program constants                                                       *)
(***************************************************************************)
CONCURRENCY == 10

(***************************************************************************)
(* Universes                                                               *)
(***************************************************************************)
Repos == {"o/r1", "o/r2"}          \* repositories that exist on GitHub
GoneRepo == "o/gone"               \* a full name that no longer resolves
ListNames == {"AI", "ai", "Web"}   \* list names; "AI" and "ai" differ by case only
MissingList == "Old"               \* a list name no list carries
Null == "null"                     \* JSON null / description: null
Undefined == "undefined"           \* an omitted optional argument
Descriptions == {Null, "", "d"}
Errors == {"rate limited", "not resolved"}   \* messages of failed requests
NoId == 0                          \* Map.get() of an absent key
NoCursor == 0                      \* let cursor: string | null = null
NoPlan == [actions |-> <<>>, none |-> TRUE]  \* this.plan = null
NoAnswer == <<"none", "none">>     \* no prompt about the plan answered in this operation
NoBackup == [stars |-> <<>>, lists |-> <<>>, none |-> TRUE]  \* no backup file

VARIABLES
  \* the GitHub account (server side)
  ghStarred,        \* set of starred repositories
  ghLists,          \* sequence of [name, description]; the list id is the index
  ghMember,         \* ghMember[r] = set of list ids that contain repository r
  \* StarManagerAgent fields
  pc,               \* position of the agent in run()/mainLoop()/executePlan()/restore()
  mode,             \* the mode selected in run(), "none" before the selection
  stars,            \* this.stars  (sequence of full names)
  lists,            \* this.lists  (sequence of [id, name, description])
  canCreateLists,
  finalizedLists,   \* sequence of [name, description]
  repoSuggestions,  \* sequence of [repo, action, suggestedList]
  plan,             \* [actions, none]; none = TRUE models this.plan = null
  flow,             \* the operation chosen in the main menu
  ops,              \* operations started from the main menu so far
  \* locals of executePlan
  listIdMap,        \* insertion-ordered Map name -> id, as a sequence of [name, id]
  createI,          \* position of the create loop in listsToCreate
  work,             \* validRepos (add phase) / unstarActions (unstar phase)
  batchI,           \* loop variable i of the concurrency pool
  inflight,         \* indices of work whose request is issued and not settled
  results,          \* settled outcomes of the current batch: outcome -> count
  addSuccess, addSkipped, addFailed, skipReasons, failReasons,
  unstarSuccess, unstarFailed, unstarFailReasons,
  \* BackupManager
  backupFile,       \* the backup written in this session, or NoBackup
  backupAnswer,     \* outcome of createBackup(): "none", "written", "continued"
  backup,           \* the backup loaded by restore
  toStar,           \* restore: backup stars that are not starred any more
  currentListNames, \* restore: names of the lists of the account
  restoreResult,    \* result {success, failed} of restore
  rpos,             \* loop positions of restore: [phase, i, j]
  currentItemNames, \* restore: names of the items of the list being restored
  \* history
  reqs,             \* reqs[k] = number of write requests issued for work[k]
  issued,           \* kinds of data-modifying requests issued in this session
  planChoice,       \* the latest answer to a prompt about the plan, <<prompt, choice>>
  \* RepoAnalyzer, one analysis on its own
  apc,              \* position of the analyzer in the running analysis
  task,             \* the analysis: "generateListSuggestions", "analyzeForUnstar", "categorizeRepos"
  attempt,          \* loop variable of callLLMForJSON
  response,         \* text of the LLM response that was parsed (a sequence of tokens)
  parsed,           \* value returned by parseJSON for the last response
  llmCalls,         \* outcomes of the requests of the latest callLLMForJSON, oldest first
  returned,         \* value returned by the analysis
  repos,            \* the repositories given to the analysis (full names)
  batchStart,       \* loop variable i of the batch loop
  analysisResults,  \* the results array of the batch loop
  listNames,        \* categorizeRepos: names of the finalized lists
  \* GitHubClient, one read on its own
  gpc,              \* position of the client in the running read
  read,             \* the read: "getStarredRepos" or "getListItems"
  total,            \* server: number of starred repositories, numbered 1..total
  header,           \* server: kind of Link header sent with the first page
  maxCount,         \* parameter maxCount, 0 when it is undefined
  allResponses,     \* getStarredRepos: the pages merged so far
  pagesToFetch,
  pageI,            \* getStarredRepos: loop variable i of the page batches
  pending,          \* pages of the current batch whose response has not arrived
  arrivals,         \* history: pages in the order their responses arrived
  requested,        \* history: pages in the order they were requested
  fetched,          \* the repositories the read returns
  listNodes,        \* server: the nodes of the list, 0 for a node without nameWithOwner
  cursor,           \* getListItems: the cursor variable
  cursorsSent,      \* history: the cursor of every request
  pageInfos         \* history: the pageInfo of every response

remoteVars == <<ghStarred, ghLists, ghMember>>
agentVars == <<mode, stars, lists, canCreateLists, finalizedLists,
               repoSuggestions, flow, ops>>
statVars == <<addSuccess, addSkipped, addFailed, skipReasons, failReasons,
              unstarSuccess, unstarFailed, unstarFailReasons>>
poolVars == <<work, batchI, inflight, results, reqs>>
backupVars == <<backupFile, backupAnswer>>
restoreVars == <<backup, toStar, currentListNames, restoreResult, rpos, currentItemNames>>
analyzerVars == <<apc, task, attempt, response, parsed, llmCalls, returned,
                  repos, batchStart, analysisResults, listNames>>
pagerVars == <<gpc, read, total, header, maxCount, allResponses, pagesToFetch, pageI,
               pending, arrivals, requested, fetched, listNodes, cursor, cursorsSent, pageInfos>>
vars == <<ghStarred, ghLists, ghMember, pc, mode, stars, lists,
          canCreateLists, finalizedLists, repoSuggestions, plan, flow, ops,
          listIdMap, createI, work, batchI, inflight, results,
          addSuccess, addSkipped, addFailed, skipReasons, failReasons,
          unstarSuccess, unstarFailed, unstarFailReasons,
          backupFile, backupAnswer, backup, toStar, currentListNames, restoreResult, rpos,
          currentItemNames,
          reqs, issued, planChoice, analyzerVars, pagerVars>>

\* this.dryRun and this.debugMode, set from the mode at the start of run()
dryRun_OnlyPlain == mode = "dryrun"
dryRun == mode \in {"dryrun", "debug_dryrun"}
debugMode == mode \in {"debug", "debug_dryrun"}

(***************************************************************************)
(* Helpers                                                                 *)
(***************************************************************************)
Min(a, b) == IF a < b THEN a ELSE b

Range(s) == {s[k] : k \in 1..Len(s)}

RECURSIVE SumOver(_, _)
SumOver(f, S) == IF S = {} THEN 0
                 ELSE LET x == CHOOSE y \in S : TRUE IN f[x] + SumOver(f, S \ {x})

\* the server returns repositories in a fixed order
RepoOrder == <<"o/r1", "o/r2", "o/gone">>
SeqOfRepos(S) == SelectSeq(RepoOrder, LAMBDA r : r \in S)

\* String.prototype.toLowerCase().trim()
LowerTrim(n) == CASE n = "AI" -> "ai"
                  [] n = "Web" -> "web"
                  [] n = "Old" -> "old"
                  [] OTHER -> n

\* Map.prototype.get / Map.prototype.set on an insertion-ordered map
MapGet(m, name) == IF \E k \in 1..Len(m) : m[k].name = name
                   THEN m[CHOOSE k \in 1..Len(m) : m[k].name = name].id
                   ELSE NoId
MapSet(m, name, id) == IF \E k \in 1..Len(m) : m[k].name = name
                       THEN [k \in 1..Len(m) |->
                               IF m[k].name = name THEN [name |-> name, id |-> id] ELSE m[k]]
                       ELSE Append(m, [name |-> name, id |-> id])

ZeroBag(S) == [x \in S |-> 0]
Outcomes == {"ok"} \cup Errors
SkipKeys == ({"list not found"} \X (ListNames \cup {MissingList, ""}))
              \cup ({"repo not found"} \X (Repos \cup {GoneRepo}))

(***************************************************************************)
(* Plan actions (PlanAction): unused params are "-"                        *)
(***************************************************************************)
CreateListAction(n, d) ==
  [type |-> "create_list", name |-> n, description |-> d, list_name |-> "-", repo_full_name |-> "-"]
AddToListAction(l, r) ==
  [type |-> "add_to_list", name |-> "-", description |-> "-", list_name |-> l, repo_full_name |-> r]
UnstarAction(r) ==
  [type |-> "unstar", name |-> "-", description |-> "-", list_name |-> "-", repo_full_name |-> r]

OfType(actions, t) == SelectSeq(actions, LAMBDA a : a.type = t)

(***************************************************************************)
(* GitHubClient requests and their effect on the account                   *)
(***************************************************************************)
\* addRepoToList: the listIds sent in updateUserListsForItem
AddRepoToListIds(listId, existingListIds) == existingListIds \cup {listId}

\* server: updateUserListsForItem(itemId, listIds) sets the lists of the item
UpdateUserListsForItem(member, repo, listIds) == [member EXCEPT ![repo] = listIds]

\* server: createUserList(input) appends a list; an omitted description is null
CreateUserList(ls, name, description) ==
  Append(ls, [name |-> name,
              description |-> IF description = Undefined THEN Null ELSE description])

\* getLists(): the lists of the account with their ids
GetLists(ls) == [k \in 1..Len(ls) |->
                   [id |-> k, name |-> ls[k].name, description |-> ls[k].description]]

\* getListItems(listId): the repositories of a list, in server order
GetListItems(member, listId) == SeqOfRepos({r \in Repos : listId \in member[r]})

\* getRepoByName(fullName): the repository, or null when it does not resolve
GetRepoByName(fullName) == IF fullName \in Repos THEN fullName ELSE Null

(***************************************************************************)
(* executePlan                                                             *)
(***************************************************************************)
RECURSIVE NormalizeFrom(_, _, _)
NormalizeFrom(m, k, acc) ==
  IF k > Len(m) THEN acc
  ELSE NormalizeFrom(m, k + 1, MapSet(acc, LowerTrim(m[k].name), m[k].id))

\* listIdMapNormalized: the case-insensitive lookup map
ListIdMapNormalized(m) == NormalizeFrom(m, 1, <<>>)

\* Step 1 of the add phase: the list id of an add_to_list action, or NoId
ResolveListId(m, listName) ==
  LET exact == MapGet(m, listName)
  IN IF exact # NoId THEN exact
     ELSE MapGet(ListIdMapNormalized(m), LowerTrim(listName))

RECURSIVE ListIdMapOf(_, _, _)
ListIdMapOf(ls, k, acc) ==
  IF k > Len(ls) THEN acc ELSE ListIdMapOf(ls, k + 1, MapSet(acc, ls[k].name, ls[k].id))

\* `dry-run-id-${name}`: an id that is no id of the account
DryRunId(name) == CASE name = "AI" -> 0 - 1
                    [] name = "ai" -> 0 - 2
                    [] name = "Web" -> 0 - 3
                    [] OTHER -> 0 - 4

\* batch = work.slice(i, i + CONCURRENCY), as indices of work
BatchIndices_NoCap(i, n) == (i + 1)..n
BatchIndices(i, n) == (i + 1)..Min(i + CONCURRENCY, n)

\* await Promise.all(batch): the batch is over when no request is in flight
BatchAwaited_Any(fl) == TRUE
BatchAwaited(fl) == fl = {}

\* loop step i += CONCURRENCY
NextBatch_SkipOne(i) == i + CONCURRENCY + 1
NextBatch(i) == i + CONCURRENCY

ResetLocals ==
  /\ createI' = 1
  /\ work' = <<>>  /\ batchI' = 0  /\ inflight' = {}  /\ results' = ZeroBag(Outcomes)
  /\ reqs' = <<>>
  /\ addSuccess' = 0 /\ addSkipped' = 0 /\ addFailed' = 0
  /\ skipReasons' = ZeroBag(SkipKeys) /\ failReasons' = ZeroBag(Errors)
  /\ unstarSuccess' = 0 /\ unstarFailed' = 0 /\ unstarFailReasons' = ZeroBag(Errors)

\* entry of executePlan up to the first prompt or the first phase
ExecutePlanEntry ==
  /\ pc \in {"exec_entry", "exec_reentry"}
  /\ ResetLocals
  /\ IF plan.none \/ Len(plan.actions) = 0
     THEN /\ pc' = "exec_return"
          /\ listIdMap' = <<>>
     ELSE /\ listIdMap' = ListIdMapOf(lists, 1, <<>>)
          /\ pc' = IF Len(OfType(plan.actions, "create_list")) > 0
                   THEN (IF ~canCreateLists THEN "exec_perm_prompt" ELSE "exec_create")
                   ELSE "exec_add"
  /\ UNCHANGED <<analyzerVars, pagerVars, remoteVars, agentVars, plan, backupVars, restoreVars, issued, planChoice>>

OnlyUnstar_KeepAll(p) == p
OnlyUnstar(p) == [p EXCEPT !.actions = OfType(p.actions, "unstar")]

\* the prompt shown when the token is known to lack the 'user' scope
ChoosePermission(choice) ==
  /\ pc = "exec_perm_prompt"
  /\ CASE choice = "cancel" -> pc' = "exec_return" /\ plan' = plan
       [] choice = "skip" -> pc' = "exec_add" /\ plan' = OnlyUnstar(plan)
       [] choice = "retry" -> pc' = "exec_create" /\ plan' = plan
  /\ planChoice' = <<"permission", choice>>
  /\ UNCHANGED <<analyzerVars, pagerVars, remoteVars, agentVars, listIdMap, createI, poolVars, statVars,
                 backupVars, restoreVars, issued>>

ListsToCreate == OfType(plan.actions, "create_list")

\* dry run of the create loop: fake ids, no request
CreateListsDry ==
  /\ pc = "exec_create" /\ dryRun
  /\ createI <= Len(ListsToCreate)
  /\ listIdMap' = MapSet(listIdMap, ListsToCreate[createI].name,
                         DryRunId(ListsToCreate[createI].name))
  /\ createI' = createI + 1
  /\ UNCHANGED <<analyzerVars, pagerVars, pc, remoteVars, agentVars, plan, poolVars, statVars,
                 backupVars, restoreVars, issued, planChoice>>

CreateLoopDone ==
  /\ pc = "exec_create"
  /\ createI > Len(ListsToCreate)
  /\ pc' = "exec_add"
  /\ UNCHANGED <<analyzerVars, pagerVars, remoteVars, agentVars, plan, listIdMap, createI, poolVars, statVars,
                 backupVars, restoreVars, issued, planChoice>>

\* createList succeeds: the account gets a new list and the map its id
CreateListSucceeds ==
  /\ pc = "exec_create" /\ ~dryRun
  /\ createI <= Len(ListsToCreate)
  /\ Len(ghLists) < MaxLists
  /\ ghLists' = CreateUserList(ghLists, ListsToCreate[createI].name,
                               ListsToCreate[createI].description)
  /\ listIdMap' = MapSet(listIdMap, ListsToCreate[createI].name, Len(ghLists) + 1)
  /\ createI' = createI + 1
  /\ issued' = issued \cup {"createUserList"} /\ planChoice' = planChoice
  /\ UNCHANGED <<analyzerVars, pagerVars, pc, ghStarred, ghMember, agentVars, plan, poolVars, statVars,
                 backupVars, restoreVars>>

\* createList throws: the loop stops at the first failure
CreateListFails ==
  /\ pc = "exec_create" /\ ~dryRun
  /\ createI <= Len(ListsToCreate)
  /\ pc' = "exec_create_failed"
  /\ issued' = issued \cup {"createUserList"} /\ planChoice' = planChoice
  /\ UNCHANGED <<analyzerVars, pagerVars, remoteVars, agentVars, plan, listIdMap, createI, poolVars, statVars,
                 backupVars, restoreVars>>

\* the prompt after a failed createList
ChooseCreateFailed(choice) ==
  /\ pc = "exec_create_failed"
  /\ CASE choice = "cancel" -> pc' = "exec_return" /\ plan' = plan
       [] choice = "skip" -> pc' = "exec_add" /\ plan' = OnlyUnstar(plan)
       [] choice = "retry" -> pc' = "exec_retry" /\ plan' = plan
  /\ planChoice' = <<"create_failed", choice>>
  /\ UNCHANGED <<analyzerVars, pagerVars, remoteVars, agentVars, listIdMap, createI, poolVars, statVars,
                 backupVars, restoreVars, issued>>

\* retry: checkScopes() again, then executePlan() recursively
CheckScopesRetry(can) ==
  /\ pc = "exec_retry"
  /\ canCreateLists' = can
  /\ pc' = "exec_reentry"
  /\ UNCHANGED <<analyzerVars, pagerVars, remoteVars, mode, stars, lists, finalizedLists,
                 repoSuggestions, flow, ops, plan, listIdMap, createI, poolVars,
                 statVars, backupVars, restoreVars, issued, planChoice>>

\* Step 1 of the add phase: resolve the list of every add_to_list action
AddActions == OfType(plan.actions, "add_to_list")
Prepared(m) ==
  LET acts == AddActions
      ok == SelectSeq(acts, LAMBDA a : ResolveListId(m, a.list_name) # NoId)
  IN [k \in 1..Len(ok) |->
        [action |-> ok[k], listId |-> ResolveListId(m, ok[k].list_name), repo |-> Null]]
ListSkips(m, key) ==
  IF key[1] = "list not found"
  THEN Cardinality({k \in 1..Len(AddActions) :
                      /\ AddActions[k].list_name = key[2]
                      /\ ResolveListId(m, key[2]) = NoId})
  ELSE 0

AddPhasePrepare ==
  /\ pc = "exec_add"
  /\ IF Len(AddActions) = 0
     THEN /\ pc' = "exec_unstar"
          /\ UNCHANGED <<poolVars, statVars>>
     ELSE LET prepared == Prepared(listIdMap)
          IN /\ addSkipped' = Len(AddActions) - Len(prepared)
             /\ skipReasons' = [key \in SkipKeys |-> ListSkips(listIdMap, key)]
             /\ addFailed' = 0
             /\ failReasons' = ZeroBag(Errors)
             /\ addSuccess' = IF dryRun THEN Len(prepared) ELSE 0
             /\ work' = IF dryRun THEN <<>> ELSE prepared
             /\ pc' = IF ~dryRun /\ Len(prepared) > 0 THEN "add_lookup" ELSE "exec_unstar"
             /\ UNCHANGED <<batchI, inflight, results, reqs,
                            unstarSuccess, unstarFailed, unstarFailReasons>>
  /\ UNCHANGED <<analyzerVars, pagerVars, remoteVars, agentVars, plan, listIdMap, createI,
                 backupVars, restoreVars, issued, planChoice>>

\* Step 2: Promise.all(getRepoByName); repos that do not resolve are skipped
AddLookup ==
  /\ pc = "add_lookup"
  /\ LET repoResults == [k \in 1..Len(work) |->
                           [work[k] EXCEPT !.repo = GetRepoByName(work[k].action.repo_full_name)]]
         validRepos == SelectSeq(repoResults, LAMBDA r : r.repo # Null)
         invalidRepos == SelectSeq(repoResults, LAMBDA r : r.repo = Null)
     IN /\ work' = validRepos
        /\ addSkipped' = addSkipped + Len(invalidRepos)
        /\ skipReasons' = [key \in SkipKeys |->
              skipReasons[key] +
              (IF key[1] = "repo not found"
               THEN Cardinality({k \in 1..Len(invalidRepos) :
                                   invalidRepos[k].action.repo_full_name = key[2]})
               ELSE 0)]
        /\ reqs' = [k \in 1..Len(validRepos) |-> 0]
  /\ batchI' = 0
  /\ pc' = "add_batch"
  /\ UNCHANGED <<analyzerVars, pagerVars, remoteVars, agentVars, plan, listIdMap, createI, inflight, results,
                 addSuccess, addFailed, failReasons,
                 unstarSuccess, unstarFailed, unstarFailReasons,
                 backupVars, restoreVars, issued, planChoice>>

\* one turn of the pool loop: issue the requests of the next batch, or leave the loop
AddBatchStart ==
  /\ pc = "add_batch"
  /\ IF batchI < Len(work)
     THEN /\ inflight' = inflight \cup BatchIndices(batchI, Len(work))
          /\ reqs' = [k \in 1..Len(work) |->
                        IF k \in BatchIndices(batchI, Len(work)) THEN reqs[k] + 1 ELSE reqs[k]]
          /\ results' = ZeroBag(Outcomes)
          /\ issued' = issued \cup {"updateUserListsForItem"} /\ planChoice' = planChoice
          /\ pc' = "add_wait"
     ELSE /\ pc' = "exec_unstar"
          /\ UNCHANGED <<inflight, reqs, results, issued, planChoice>>
  /\ UNCHANGED <<analyzerVars, pagerVars, remoteVars, agentVars, plan, listIdMap, createI, work, batchI, statVars,
                 backupVars, restoreVars>>

\* an addRepoToList(listId, repo.nodeId) request of the batch succeeds
AddRequestSucceeds(k) ==
  /\ pc = "add_wait"
  /\ k \in inflight
  /\ ghMember' = UpdateUserListsForItem(ghMember, work[k].repo,
                                        AddRepoToListIds(work[k].listId, {}))
  /\ results' = [results EXCEPT !["ok"] = @ + 1]
  /\ inflight' = inflight \ {k}
  /\ UNCHANGED <<analyzerVars, pagerVars, pc, ghStarred, ghLists, agentVars, plan, listIdMap, createI, work, batchI,
                 reqs, statVars, backupVars, restoreVars, issued, planChoice>>

\* an addRepoToList request of the batch throws
AddRequestFails(k, e) ==
  /\ pc = "add_wait"
  /\ k \in inflight
  /\ results' = [results EXCEPT ![e] = @ + 1]
  /\ inflight' = inflight \ {k}
  /\ UNCHANGED <<analyzerVars, pagerVars, pc, remoteVars, agentVars, plan, listIdMap, createI, work, batchI,
                 reqs, statVars, backupVars, restoreVars, issued, planChoice>>

\* failed results of a batch (each one counts, whatever its message)
TallyFailed_Distinct(res) == Cardinality({e \in Errors : res[e] > 0})
TallyFailed(res) == SumOver(res, Errors)

\* Promise.all resolved: tally the results of the batch
AddBatchTally ==
  /\ pc = "add_wait"
  /\ BatchAwaited(inflight)
  /\ addSuccess' = addSuccess + results["ok"]
  /\ addFailed' = addFailed + TallyFailed(results)
  /\ failReasons' = [e \in Errors |-> failReasons[e] + results[e]]
  /\ results' = ZeroBag(Outcomes)
  /\ batchI' = NextBatch(batchI)
  /\ pc' = "add_batch"
  /\ UNCHANGED <<analyzerVars, pagerVars, remoteVars, agentVars, plan, listIdMap, createI, work, inflight, reqs,
                 addSkipped, skipReasons, unstarSuccess, unstarFailed, unstarFailReasons,
                 backupVars, restoreVars, issued, planChoice>>

UnstarActions == OfType(plan.actions, "unstar")

\* start of the unstar phase
UnstarPhaseStart ==
  /\ pc = "exec_unstar"
  /\ IF Len(UnstarActions) = 0
     THEN /\ pc' = "exec_end"
          /\ UNCHANGED <<work, batchI, reqs, unstarSuccess>>
     ELSE /\ unstarSuccess' = IF dryRun THEN Len(UnstarActions) ELSE 0
          /\ work' = IF dryRun THEN work ELSE UnstarActions
          /\ reqs' = IF dryRun THEN reqs ELSE [k \in 1..Len(UnstarActions) |-> 0]
          /\ batchI' = 0
          /\ pc' = IF dryRun THEN "exec_end" ELSE "unstar_batch"
  /\ UNCHANGED <<analyzerVars, pagerVars, remoteVars, agentVars, plan, listIdMap, createI, inflight, results,
                 addSuccess, addSkipped, addFailed, skipReasons, failReasons,
                 unstarFailed, unstarFailReasons,
                 backupVars, restoreVars, issued, planChoice>>

UnstarBatchStart ==
  /\ pc = "unstar_batch"
  /\ IF batchI < Len(work)
     THEN /\ inflight' = inflight \cup BatchIndices(batchI, Len(work))
          /\ reqs' = [k \in 1..Len(work) |->
                        IF k \in BatchIndices(batchI, Len(work)) THEN reqs[k] + 1 ELSE reqs[k]]
          /\ results' = ZeroBag(Outcomes)
          /\ issued' = issued \cup {"unstar"} /\ planChoice' = planChoice
          /\ pc' = "unstar_wait"
     ELSE /\ pc' = "exec_end"
          /\ UNCHANGED <<inflight, reqs, results, issued, planChoice>>
  /\ UNCHANGED <<analyzerVars, pagerVars, remoteVars, agentVars, plan, listIdMap, createI, work, batchI, statVars,
                 backupVars, restoreVars>>

\* an unstarRepo(owner, repo) request of the batch succeeds
UnstarRequestSucceeds(k) ==
  /\ pc = "unstar_wait"
  /\ k \in inflight
  /\ ghStarred' = ghStarred \ {work[k].repo_full_name}
  /\ results' = [results EXCEPT !["ok"] = @ + 1]
  /\ inflight' = inflight \ {k}
  /\ UNCHANGED <<analyzerVars, pagerVars, pc, ghLists, ghMember, agentVars, plan, listIdMap, createI, work, batchI,
                 reqs, statVars, backupVars, restoreVars, issued, planChoice>>

UnstarRequestFails(k, e) ==
  /\ pc = "unstar_wait"
  /\ k \in inflight
  /\ results' = [results EXCEPT ![e] = @ + 1]
  /\ inflight' = inflight \ {k}
  /\ UNCHANGED <<analyzerVars, pagerVars, pc, remoteVars, agentVars, plan, listIdMap, createI, work, batchI,
                 reqs, statVars, backupVars, restoreVars, issued, planChoice>>

UnstarBatchTally ==
  /\ pc = "unstar_wait"
  /\ BatchAwaited(inflight)
  /\ unstarSuccess' = unstarSuccess + results["ok"]
  /\ unstarFailed' = unstarFailed + TallyFailed(results)
  /\ unstarFailReasons' = [e \in Errors |-> unstarFailReasons[e] + results[e]]
  /\ results' = ZeroBag(Outcomes)
  /\ batchI' = NextBatch(batchI)
  /\ pc' = "unstar_batch"
  /\ UNCHANGED <<analyzerVars, pagerVars, remoteVars, agentVars, plan, listIdMap, createI, work, inflight, reqs,
                 addSuccess, addSkipped, addFailed, skipReasons, failReasons,
                 backupVars, restoreVars, issued, planChoice>>

\* the "Done" message at the end of executePlan
ExecutePlanDone ==
  /\ pc = "exec_end"
  /\ pc' = "exec_return"
  /\ UNCHANGED <<analyzerVars, pagerVars, remoteVars, agentVars, plan, listIdMap, createI, poolVars, statVars,
                 backupVars, restoreVars, issued, planChoice>>

ExecNext ==
  \/ ExecutePlanEntry
  \/ \E c \in {"cancel", "skip", "retry"} : ChoosePermission(c)
  \/ CreateListsDry
  \/ CreateLoopDone
  \/ CreateListSucceeds
  \/ CreateListFails
  \/ \E c \in {"cancel", "skip", "retry"} : ChooseCreateFailed(c)
  \/ \E can \in BOOLEAN : CheckScopesRetry(can)
  \/ AddPhasePrepare
  \/ AddLookup
  \/ AddBatchStart
  \/ \E k \in inflight : AddRequestSucceeds(k)
  \/ \E k \in inflight, e \in Errors : AddRequestFails(k, e)
  \/ AddBatchTally
  \/ UnstarPhaseStart
  \/ UnstarBatchStart
  \/ \E k \in inflight : UnstarRequestSucceeds(k)
  \/ \E k \in inflight, e \in Errors : UnstarRequestFails(k, e)
  \/ UnstarBatchTally
  \/ ExecutePlanDone

(***************************************************************************)
(* The session: run, fetchData, createBackup, mainLoop and the wizard      *)
(***************************************************************************)
Modes == {"analyze", "restore", "debug", "dryrun", "debug_dryrun"}
SessionNames == {"AI", "Web"}      \* list names the LLM and the user come up with

ListSuggestion(n, d) == [name |-> n, description |-> d]
Suggestion(r, a, l) == [repo |-> r, action |-> a, suggestedList |-> l]

\* answers of the LLM to suggestLists
ListSuggestionAnswers ==
  {<<>>, <<ListSuggestion("Web", "d")>>,
   <<ListSuggestion("AI", "d"), ListSuggestion("Web", "d")>>}

\* sequences over S of length at most n
SeqsUpTo(S, n) == UNION {[1..m -> S] : m \in 0..n}

\* results of categorizeRepos the agent keeps: action categorize, a starred
\* repository, one of the finalized list names
CategorizeAnswers(st, fl) ==
  SeqsUpTo({Suggestion(r, "categorize", l) :
              r \in Range(st), l \in {fl[k].name : k \in 1..Len(fl)}}, MaxSuggestions)

\* results of analyzeForUnstar the agent keeps: action unstar, a starred repository
UnstarAnswers(st) ==
  SeqsUpTo({Suggestion(r, "unstar", "-") : r \in Range(st)}, MaxSuggestions)

\* resetOperationState()
ResetOperationState ==
  /\ finalizedLists' = <<>>
  /\ repoSuggestions' = <<>>
  /\ plan' = NoPlan

\* BackupManager.createBackup: the stars and every list with its items
MakeBackup(st, ls, member) ==
  [none |-> FALSE,
   stars |-> st,
   lists |-> [k \in 1..Len(ls) |->
                [id |-> ls[k].id, name |-> ls[k].name, description |-> ls[k].description,
                 repos |-> GetListItems(member, ls[k].id)]]]

\* the mode prompt of run(); getTokens() succeeded
Run(m) ==
  /\ pc = "start"
  /\ mode' = m
  /\ pc' = IF m = "restore" THEN "restore_select" ELSE "fetch"
  /\ UNCHANGED <<analyzerVars, pagerVars, remoteVars, stars, lists, canCreateLists, finalizedLists, repoSuggestions,
                 flow, ops, plan, listIdMap, createI, poolVars, statVars,
                 backupVars, restoreVars, issued, planChoice>>

\* getTokens() returned null: run() returns
RunNoTokens(m) ==
  /\ pc = "start"
  /\ mode' = m
  /\ pc' = "done"
  /\ UNCHANGED <<analyzerVars, pagerVars, remoteVars, stars, lists, canCreateLists, finalizedLists, repoSuggestions,
                 flow, ops, plan, listIdMap, createI, poolVars, statVars,
                 backupVars, restoreVars, issued, planChoice>>

FetchData(can) ==
  /\ pc = "fetch"
  /\ canCreateLists' = can
  /\ stars' = SeqOfRepos(ghStarred)
  /\ lists' = GetLists(ghLists)
  /\ pc' = "backup"
  /\ UNCHANGED <<analyzerVars, pagerVars, remoteVars, mode, finalizedLists, repoSuggestions, flow, ops, plan,
                 listIdMap, createI, poolVars, statVars, backupVars, restoreVars, issued, planChoice>>

\* a request of fetchData throws: the error is rethrown and run() rejects
FetchDataFails ==
  /\ pc = "fetch"
  /\ pc' = "crashed"
  /\ UNCHANGED <<analyzerVars, pagerVars, remoteVars, agentVars, plan, listIdMap, createI, poolVars, statVars,
                 backupVars, restoreVars, issued, planChoice>>

\* createBackup(): the backup file is written, mainLoop starts
CreateBackupSucceeds ==
  /\ pc = "backup"
  /\ backupFile' = MakeBackup(stars, lists, ghMember)
  /\ backupAnswer' = "written"
  /\ ResetOperationState
  /\ pc' = "menu"
  /\ UNCHANGED <<analyzerVars, pagerVars, remoteVars, mode, stars, lists, canCreateLists, flow, ops,
                 listIdMap, createI, poolVars, statVars, restoreVars, issued, planChoice>>

\* createBackup(): BackupManager.createBackup throws, the prompt is shown
CreateBackupFails ==
  /\ pc = "backup"
  /\ pc' = "backup_prompt"
  /\ UNCHANGED <<analyzerVars, pagerVars, remoteVars, agentVars, plan, listIdMap, createI, poolVars, statVars,
                 backupVars, restoreVars, issued, planChoice>>

\* if (!cont) throw new Error("Aborted")
BackupPromptNext_Ignore(cont) == "menu"
BackupPromptNext(cont) == IF cont THEN "menu" ELSE "aborted"

\* the answer to "Continue without backup?"
ContinueWithoutBackup(cont) ==
  /\ pc = "backup_prompt"
  /\ backupAnswer' = IF cont THEN "continued" ELSE "declined"
  /\ ResetOperationState
  /\ pc' = BackupPromptNext(cont)
  /\ UNCHANGED <<analyzerVars, pagerVars, remoteVars, mode, stars, lists, canCreateLists, flow, ops,
                 listIdMap, createI, poolVars, statVars, backupFile, restoreVars, issued, planChoice>>

\* showMainMenu() and the branch of mainLoop
MainMenu(action) ==
  /\ pc = "menu"
  /\ IF action = "exit"
     THEN /\ pc' = "done"
          /\ UNCHANGED <<flow, ops>>
     ELSE /\ ops < MaxOps
          /\ ops' = ops + 1
          /\ flow' = action
          /\ pc' = IF action = "unstar" THEN "unstar_analysis"
                   ELSE IF Len(lists) > 0 THEN "existing_prompt" ELSE "list_mgmt"
  /\ UNCHANGED <<analyzerVars, pagerVars, remoteVars, mode, stars, lists, canCreateLists, finalizedLists,
                 repoSuggestions, plan, listIdMap, createI, poolVars, statVars,
                 backupVars, restoreVars, issued, planChoice>>

\* runCategorizationFlow after the list stage: categorize if there are lists
AfterListStage(fl) == IF Len(fl) > 0 THEN "categorize" ELSE "refresh"

\* handleExistingLists(); "view" shows a list and asks again
HandleExistingLists(action) ==
  /\ pc = "existing_prompt"
  /\ CASE action = "view" -> UNCHANGED <<pc, finalizedLists>>
       [] action = "use_existing" ->
            /\ finalizedLists' =
                 [k \in 1..Len(lists) |->
                    ListSuggestion(lists[k].name,
                                   IF lists[k].description = Null THEN ""
                                   ELSE lists[k].description)]
            /\ pc' = AfterListStage(finalizedLists')
       [] OTHER -> pc' = "list_mgmt" /\ UNCHANGED finalizedLists
  /\ UNCHANGED <<analyzerVars, pagerVars, remoteVars, mode, stars, lists, canCreateLists, repoSuggestions, flow, ops,
                 plan, listIdMap, createI, poolVars, statVars, backupVars, restoreVars, issued, planChoice>>

\* listManagementStage(): the suggestions of the LLM become finalizedLists
ListManagementStage(answer) ==
  /\ pc = "list_mgmt"
  /\ finalizedLists' = answer
  /\ pc' = "review_lists"
  /\ UNCHANGED <<analyzerVars, pagerVars, remoteVars, mode, stars, lists, canCreateLists, repoSuggestions, flow, ops,
                 plan, listIdMap, createI, poolVars, statVars, backupVars, restoreVars, issued, planChoice>>

\* the LLM request throws after its retries: run() rejects
AnalyzerThrows ==
  /\ pc \in {"list_mgmt", "categorize", "unstar_analysis"}
  /\ pc' = "crashed"
  /\ UNCHANGED <<analyzerVars, pagerVars, remoteVars, agentVars, plan, listIdMap, createI, poolVars, statVars,
                 backupVars, restoreVars, issued, planChoice>>

\* reviewAndFinalizeLists()
ReviewAndFinalizeLists(action) ==
  /\ pc = "review_lists"
  /\ CASE action = "cancel" -> finalizedLists' = <<>> /\ pc' = AfterListStage(<<>>)
       [] action = "confirm" -> pc' = AfterListStage(finalizedLists) /\ UNCHANGED finalizedLists
       [] action = "edit" -> pc' = "edit_lists" /\ UNCHANGED finalizedLists
  /\ UNCHANGED <<analyzerVars, pagerVars, remoteVars, mode, stars, lists, canCreateLists, repoSuggestions, flow, ops,
                 plan, listIdMap, createI, poolVars, statVars, backupVars, restoreVars, issued, planChoice>>

\* the indices of a sequence that are in a set, in ascending order
RECURSIVE KeepIndices(_, _, _)
KeepIndices(s, keep, k) ==
  IF k > Len(s) THEN <<>>
  ELSE (IF k \in keep THEN <<s[k]>> ELSE <<>>) \o KeepIndices(s, keep, k + 1)

\* editLists(): back
EditBack ==
  /\ pc = "edit_lists"
  /\ pc' = "review_lists"
  /\ UNCHANGED <<analyzerVars, pagerVars, remoteVars, agentVars, plan, listIdMap, createI, poolVars, statVars,
                 backupVars, restoreVars, issued, planChoice>>

\* editLists(): remove, the user selects the lists to keep
EditRemove(keep) ==
  /\ pc = "edit_lists"
  /\ finalizedLists' = KeepIndices(finalizedLists, keep, 1)
  /\ pc' = "review_lists"
  /\ UNCHANGED <<analyzerVars, pagerVars, remoteVars, mode, stars, lists, canCreateLists, repoSuggestions, flow, ops,
                 plan, listIdMap, createI, poolVars, statVars, backupVars, restoreVars, issued, planChoice>>

\* editLists(): add a custom list; an empty name adds nothing
EditAdd(name, description) ==
  /\ pc = "edit_lists"
  /\ Len(finalizedLists) < MaxFinalized
  /\ finalizedLists' = IF name # "" THEN Append(finalizedLists, ListSuggestion(name, description))
                       ELSE finalizedLists
  /\ pc' = "review_lists"
  /\ UNCHANGED <<analyzerVars, pagerVars, remoteVars, mode, stars, lists, canCreateLists, repoSuggestions, flow, ops,
                 plan, listIdMap, createI, poolVars, statVars, backupVars, restoreVars, issued, planChoice>>

\* editLists(): rename a list; an empty new name renames nothing
EditRename(listIndex, newName) ==
  /\ pc = "edit_lists"
  /\ listIndex \in 1..Len(finalizedLists)
  /\ finalizedLists' = IF newName # "" THEN [finalizedLists EXCEPT ![listIndex].name = newName]
                       ELSE finalizedLists
  /\ pc' = "review_lists"
  /\ UNCHANGED <<analyzerVars, pagerVars, remoteVars, mode, stars, lists, canCreateLists, repoSuggestions, flow, ops,
                 plan, listIdMap, createI, poolVars, statVars, backupVars, restoreVars, issued, planChoice>>

\* categorizationStage(): the categorize results are pushed to repoSuggestions
CategorizationStage(answer) ==
  /\ pc = "categorize"
  /\ repoSuggestions' = repoSuggestions \o answer
  /\ pc' = IF Len(repoSuggestions') > 0 THEN "review_cat" ELSE "refresh"
  /\ UNCHANGED <<analyzerVars, pagerVars, remoteVars, mode, stars, lists, canCreateLists, finalizedLists, flow, ops,
                 plan, listIdMap, createI, poolVars, statVars, backupVars, restoreVars, issued, planChoice>>

\* unstarAnalysisStage(): the unstar results are pushed to repoSuggestions
UnstarAnalysisStage(answer) ==
  /\ pc = "unstar_analysis"
  /\ repoSuggestions' = repoSuggestions \o answer
  /\ pc' = IF Len(repoSuggestions') > 0 THEN "review_unstar" ELSE "refresh"
  /\ UNCHANGED <<analyzerVars, pagerVars, remoteVars, mode, stars, lists, canCreateLists, finalizedLists, flow, ops,
                 plan, listIdMap, createI, poolVars, statVars, backupVars, restoreVars, issued, planChoice>>

\* generatePlan(): create_list for the finalized lists the account lacks, then
\* add_to_list for the categorize suggestions, then unstar
GeneratePlan(fl, ls, sug) ==
  LET newLists == SelectSeq(fl, LAMBDA l : ~\E k \in 1..Len(ls) : ls[k].name = l.name)
      cats == SelectSeq(sug, LAMBDA s : s.action = "categorize" /\ s.suggestedList # "")
      uns == SelectSeq(sug, LAMBDA s : s.action = "unstar")
  IN [none |-> FALSE,
      actions |-> [k \in 1..Len(newLists) |->
                     CreateListAction(newLists[k].name, newLists[k].description)]
                  \o [k \in 1..Len(cats) |-> AddToListAction(cats[k].suggestedList, cats[k].repo)]
                  \o [k \in 1..Len(uns) |-> UnstarAction(uns[k].repo)]]

\* syncCategorization(): suggestions for lists that are gone become "keep"
SyncCategorization(fl, ls, sug) ==
  LET validListNames == {fl[k].name : k \in 1..Len(fl)} \cup {ls[k].name : k \in 1..Len(ls)}
  IN [k \in 1..Len(sug) |->
        IF sug[k].action = "categorize" /\ sug[k].suggestedList # ""
           /\ sug[k].suggestedList \notin validListNames
        THEN [sug[k] EXCEPT !.action = "keep"]
        ELSE sug[k]]

\* reviewCategorization(): accept all, skip all, or decide list by list; the
\* suggestions of the dropped lists become "keep"; then generatePlan()
ReviewCategorization(choice, dropped) ==
  /\ pc = "review_cat"
  /\ LET groups == {repoSuggestions[k].suggestedList : k \in 1..Len(repoSuggestions)}
     IN /\ dropped \subseteq groups
        /\ choice = "accept" => dropped = {}
        /\ choice = "skip" => dropped = groups
  /\ repoSuggestions' =
       [k \in 1..Len(repoSuggestions) |->
          IF repoSuggestions[k].action = "categorize"
             /\ repoSuggestions[k].suggestedList \in dropped
          THEN [repoSuggestions[k] EXCEPT !.action = "keep"]
          ELSE repoSuggestions[k]]
  /\ plan' = GeneratePlan(finalizedLists, lists, repoSuggestions')
  /\ pc' = "plan_prompt"
  /\ UNCHANGED <<analyzerVars, pagerVars, remoteVars, mode, stars, lists, canCreateLists, finalizedLists, flow, ops,
                 listIdMap, createI, poolVars, statVars, backupVars, restoreVars, issued, planChoice>>

\* reviewUnstar(): accept all, skip all, or decide one by one; then generatePlan()
ReviewUnstar(choice, kept) ==
  /\ pc = "review_unstar"
  /\ kept \subseteq 1..Len(repoSuggestions)
  /\ choice = "accept" => kept = {}
  /\ choice = "skip" => kept = 1..Len(repoSuggestions)
  /\ repoSuggestions' =
       [k \in 1..Len(repoSuggestions) |->
          IF repoSuggestions[k].action = "unstar" /\ k \in kept
          THEN [repoSuggestions[k] EXCEPT !.action = "keep"]
          ELSE repoSuggestions[k]]
  /\ plan' = GeneratePlan(finalizedLists, lists, repoSuggestions')
  /\ pc' = "plan_prompt"
  /\ UNCHANGED <<analyzerVars, pagerVars, remoteVars, mode, stars, lists, canCreateLists, finalizedLists, flow, ops,
                 listIdMap, createI, poolVars, statVars, backupVars, restoreVars, issued, planChoice>>

\* if (choice === "cancel") this.plan = null
Cancelled_Kept(p) == p
Cancelled(p) == NoPlan

\* showPlanAndModify(): one answer to the plan prompt
ShowPlanAndModify(choice) ==
  /\ pc = "plan_prompt"
  /\ planChoice' = <<"plan", choice>>
  /\ CASE choice = "execute" -> pc' = "exec_entry" /\ UNCHANGED <<plan, repoSuggestions>>
       [] choice = "cancel" -> pc' = "exec_entry" /\ plan' = Cancelled(plan) /\ UNCHANGED repoSuggestions
       [] choice = "remove" -> pc' = "remove_prompt" /\ UNCHANGED <<plan, repoSuggestions>>
       [] choice = "regenerate" ->
            /\ repoSuggestions' = SyncCategorization(finalizedLists, lists, repoSuggestions)
            /\ plan' = GeneratePlan(finalizedLists, lists, repoSuggestions')
            /\ UNCHANGED pc
  /\ UNCHANGED <<analyzerVars, pagerVars, remoteVars, mode, stars, lists, canCreateLists, finalizedLists, flow, ops,
                 listIdMap, createI, poolVars, statVars, backupVars, restoreVars, issued>>

\* this.plan.actions.filter((a) => a.type !== type)
Without_Inverted(actions, type) == SelectSeq(actions, LAMBDA a : a.type = type)
Without(actions, type) == SelectSeq(actions, LAMBDA a : a.type # type)

\* removeActions(): all actions of one type leave the plan when confirmed
RemoveActions(type, confirm) ==
  /\ pc = "remove_prompt"
  /\ plan' = IF confirm
             THEN [plan EXCEPT !.actions = Without(plan.actions, type)]
             ELSE plan
  /\ pc' = "plan_prompt"
  /\ UNCHANGED <<analyzerVars, pagerVars, remoteVars, agentVars, listIdMap, createI, poolVars, statVars,
                 backupVars, restoreVars, issued, planChoice>>

\* executePlan() has returned to its flow
ExecutePlanReturns ==
  /\ pc = "exec_return"
  /\ ResetLocals
  /\ listIdMap' = <<>>
  /\ pc' = "refresh"
  /\ UNCHANGED <<analyzerVars, pagerVars, remoteVars, agentVars, plan, backupVars, restoreVars, issued, planChoice>>

\* refreshLists() at the end of runCategorizationFlow, then the next turn of mainLoop
RefreshLists ==
  /\ pc = "refresh" /\ flow = "categorize"
  /\ lists' = GetLists(ghLists)
  /\ ResetOperationState
  /\ planChoice' = NoAnswer
  /\ pc' = "menu"
  /\ UNCHANGED <<analyzerVars, pagerVars, remoteVars, mode, stars, canCreateLists, flow, ops,
                 listIdMap, createI, poolVars, statVars, backupVars, restoreVars, issued>>

\* refreshLists(): getLists throws, the error is ignored
RefreshListsFails ==
  /\ pc = "refresh" /\ flow = "categorize"
  /\ ResetOperationState
  /\ planChoice' = NoAnswer
  /\ pc' = "menu"
  /\ UNCHANGED <<analyzerVars, pagerVars, remoteVars, mode, stars, lists, canCreateLists, flow, ops,
                 listIdMap, createI, poolVars, statVars, backupVars, restoreVars, issued>>

\* refreshStars() at the end of runUnstarFlow recomputes the statistics of this.stars
RefreshStars ==
  /\ pc = "refresh" /\ flow = "unstar"
  /\ ResetOperationState
  /\ planChoice' = NoAnswer
  /\ pc' = "menu"
  /\ UNCHANGED <<analyzerVars, pagerVars, remoteVars, mode, stars, lists, canCreateLists, flow, ops,
                 listIdMap, createI, poolVars, statVars, backupVars, restoreVars, issued>>

(***************************************************************************)
(* restoreFromBackup and BackupManager.restore                             *)
(***************************************************************************)
\* accounts a backup file may have been taken from
BackupStarSets == {{}, {"o/r1"}, {"o/r1", "o/r2"}, {"o/r1", "o/gone"}}
BackupListSeqs ==
  {<<>>,
   <<[name |-> "AI", description |-> Null]>>,
   <<[name |-> "Web", description |-> "d"]>>,
   <<[name |-> "Web", description |-> ""]>>,
   <<[name |-> "AI", description |-> Null], [name |-> "Web", description |-> "d"]>>}
\* memberships: every repository in no list, in the first list, or in every list
Memberships(S, n) ==
  {[r \in Repos |-> IF r \in S THEN f[r] ELSE {}] :
     f \in [Repos -> {{}} \cup (IF n > 0 THEN {{1}, 1..n} ELSE {})]}

\* the backup files of ~/.github-stars-backup: snapshots taken by createBackup
BackupFiles ==
  UNION {{MakeBackup(SeqOfRepos(t[1]), GetLists(t[2]), m) : m \in Memberships(t[1], Len(t[2]))} :
           t \in BackupStarSets \X BackupListSeqs}

\* restoreFromBackup(): no backup found, none selected, or the file does not load
RestoreNothing ==
  /\ pc = "restore_select"
  /\ pc' = "done"
  /\ UNCHANGED <<analyzerVars, pagerVars, remoteVars, agentVars, plan, listIdMap, createI, poolVars, statVars,
                 backupVars, restoreVars, issued, planChoice>>

\* restoreFromBackup(): a backup is selected and loaded
RestoreSelect(b) ==
  /\ pc = "restore_select"
  /\ backup' = b
  /\ pc' = "restore_confirm"
  /\ UNCHANGED <<analyzerVars, pagerVars, remoteVars, agentVars, plan, listIdMap, createI, poolVars, statVars,
                 backupVars, toStar, currentListNames, restoreResult, rpos, currentItemNames,
                 issued, planChoice>>

\* the answer to "Restore this backup?"
RestoreConfirm(confirm) ==
  /\ pc = "restore_confirm"
  /\ pc' = IF confirm THEN "restore_fetch" ELSE "done"
  /\ UNCHANGED <<analyzerVars, pagerVars, remoteVars, agentVars, plan, listIdMap, createI, poolVars, statVars,
                 backupVars, restoreVars, issued, planChoice>>

\* restore(): the current stars and lists are fetched
RestoreFetch ==
  /\ pc = "restore_fetch"
  /\ toStar' = SelectSeq(backup.stars, LAMBDA s : s \notin ghStarred)
  /\ currentListNames' = {ghLists[k].name : k \in 1..Len(ghLists)}
  /\ listIdMap' = ListIdMapOf(GetLists(ghLists), 1, <<>>)
  /\ restoreResult' = [success |-> 0, failed |-> 0]
  /\ rpos' = [phase |-> "star", i |-> 1, j |-> 1]
  /\ pc' = "restore_star"
  /\ UNCHANGED <<analyzerVars, pagerVars, remoteVars, agentVars, plan, createI, poolVars, statVars,
                 backupVars, backup, currentItemNames, issued, planChoice>>

\* restore(): getStarredRepos, getLists or getListItems throws, restore rejects
RestoreThrows ==
  /\ \/ pc = "restore_fetch"
     \/ /\ pc = "restore_content"
        /\ rpos.i <= Len(backup.lists)
        /\ MapGet(listIdMap, backup.lists[rpos.i].name) # NoId
  /\ pc' = "crashed"
  /\ UNCHANGED <<analyzerVars, pagerVars, remoteVars, agentVars, plan, listIdMap, createI, poolVars, statVars,
                 backupVars, restoreVars, issued, planChoice>>

\* starRepo succeeds on a repository that exists
RestoreStarSucceeds ==
  /\ pc = "restore_star"
  /\ rpos.i <= Len(toStar)
  /\ toStar[rpos.i] \in Repos
  /\ ghStarred' = ghStarred \cup {toStar[rpos.i]}
  /\ restoreResult' = [restoreResult EXCEPT !.success = @ + 1]
  /\ rpos' = [rpos EXCEPT !.i = @ + 1]
  /\ issued' = issued \cup {"star"} /\ planChoice' = planChoice
  /\ UNCHANGED <<analyzerVars, pagerVars, pc, ghLists, ghMember, agentVars, plan, listIdMap, createI, poolVars,
                 statVars, backupVars, backup, toStar, currentListNames, currentItemNames>>

\* starRepo throws
RestoreStarFails ==
  /\ pc = "restore_star"
  /\ rpos.i <= Len(toStar)
  /\ restoreResult' = [restoreResult EXCEPT !.failed = @ + 1]
  /\ rpos' = [rpos EXCEPT !.i = @ + 1]
  /\ issued' = issued \cup {"star"} /\ planChoice' = planChoice
  /\ UNCHANGED <<analyzerVars, pagerVars, pc, remoteVars, agentVars, plan, listIdMap, createI, poolVars,
                 statVars, backupVars, backup, toStar, currentListNames, currentItemNames>>

RestoreStarDone ==
  /\ pc = "restore_star"
  /\ rpos.i > Len(toStar)
  /\ rpos' = [phase |-> "create", i |-> 1, j |-> 1]
  /\ pc' = "restore_create"
  /\ UNCHANGED <<analyzerVars, pagerVars, remoteVars, agentVars, plan, listIdMap, createI, poolVars,
                 statVars, backupVars, backup, toStar, currentListNames, restoreResult,
                 currentItemNames, issued, planChoice>>

\* list.description || undefined
RestoreDescription_Drop(d) == Undefined
RestoreDescription(d) == IF d = Null \/ d = "" THEN Undefined ELSE d

\* the backup list exists by name: nothing to create
RestoreCreateSkip ==
  /\ pc = "restore_create"
  /\ rpos.i <= Len(backup.lists)
  /\ backup.lists[rpos.i].name \in currentListNames
  /\ rpos' = [rpos EXCEPT !.i = @ + 1]
  /\ UNCHANGED <<analyzerVars, pagerVars, pc, remoteVars, agentVars, plan, listIdMap, createI, poolVars,
                 statVars, backupVars, backup, toStar, currentListNames, restoreResult,
                 currentItemNames, issued, planChoice>>

\* createList succeeds for a backup list that is missing by name
RestoreCreateSucceeds ==
  /\ pc = "restore_create"
  /\ rpos.i <= Len(backup.lists)
  /\ backup.lists[rpos.i].name \notin currentListNames
  /\ Len(ghLists) < MaxLists
  /\ ghLists' = CreateUserList(ghLists, backup.lists[rpos.i].name,
                               RestoreDescription(backup.lists[rpos.i].description))
  /\ listIdMap' = MapSet(listIdMap, backup.lists[rpos.i].name, Len(ghLists) + 1)
  /\ restoreResult' = [restoreResult EXCEPT !.success = @ + 1]
  /\ rpos' = [rpos EXCEPT !.i = @ + 1]
  /\ issued' = issued \cup {"createUserList"} /\ planChoice' = planChoice
  /\ UNCHANGED <<analyzerVars, pagerVars, pc, ghStarred, ghMember, agentVars, plan, createI, poolVars,
                 statVars, backupVars, backup, toStar, currentListNames, currentItemNames>>

\* createList throws
RestoreCreateFails ==
  /\ pc = "restore_create"
  /\ rpos.i <= Len(backup.lists)
  /\ backup.lists[rpos.i].name \notin currentListNames
  /\ restoreResult' = [restoreResult EXCEPT !.failed = @ + 1]
  /\ rpos' = [rpos EXCEPT !.i = @ + 1]
  /\ issued' = issued \cup {"createUserList"} /\ planChoice' = planChoice
  /\ UNCHANGED <<analyzerVars, pagerVars, pc, remoteVars, agentVars, plan, listIdMap, createI, poolVars,
                 statVars, backupVars, backup, toStar, currentListNames, currentItemNames>>

RestoreCreateDone ==
  /\ pc = "restore_create"
  /\ rpos.i > Len(backup.lists)
  /\ rpos' = [phase |-> "content", i |-> 1, j |-> 1]
  /\ pc' = "restore_content"
  /\ UNCHANGED <<analyzerVars, pagerVars, remoteVars, agentVars, plan, listIdMap, createI, poolVars,
                 statVars, backupVars, backup, toStar, currentListNames, restoreResult,
                 currentItemNames, issued, planChoice>>

\* the backup list has no id (its creation failed): continue
RestoreListSkip ==
  /\ pc = "restore_content"
  /\ rpos.i <= Len(backup.lists)
  /\ MapGet(listIdMap, backup.lists[rpos.i].name) = NoId
  /\ rpos' = [rpos EXCEPT !.i = @ + 1]
  /\ UNCHANGED <<analyzerVars, pagerVars, pc, remoteVars, agentVars, plan, listIdMap, createI, poolVars,
                 statVars, backupVars, backup, toStar, currentListNames, restoreResult,
                 currentItemNames, issued, planChoice>>

\* getListItems(listId) of the backup list
RestoreListItems ==
  /\ pc = "restore_content"
  /\ rpos.i <= Len(backup.lists)
  /\ MapGet(listIdMap, backup.lists[rpos.i].name) # NoId
  /\ currentItemNames' =
       Range(GetListItems(ghMember, MapGet(listIdMap, backup.lists[rpos.i].name)))
  /\ rpos' = [rpos EXCEPT !.j = 1]
  /\ pc' = "restore_repos"
  /\ UNCHANGED <<analyzerVars, pagerVars, remoteVars, agentVars, plan, listIdMap, createI, poolVars,
                 statVars, backupVars, backup, toStar, currentListNames, restoreResult, issued, planChoice>>

\* the repository of the backup list that the inner loop is at
RestoreRepoName == backup.lists[rpos.i].repos[rpos.j]

\* the repository is in the list already, or it does not resolve
RestoreRepoSkip ==
  /\ pc = "restore_repos"
  /\ rpos.j <= Len(backup.lists[rpos.i].repos)
  /\ \/ RestoreRepoName \in currentItemNames
     \/ GetRepoByName(RestoreRepoName) = Null
  /\ rpos' = [rpos EXCEPT !.j = @ + 1]
  /\ UNCHANGED <<analyzerVars, pagerVars, pc, remoteVars, agentVars, plan, listIdMap, createI, poolVars,
                 statVars, backupVars, backup, toStar, currentListNames, restoreResult,
                 currentItemNames, issued, planChoice>>

\* addRepoToList(listId, repo.nodeId) succeeds
RestoreAddSucceeds ==
  /\ pc = "restore_repos"
  /\ rpos.j <= Len(backup.lists[rpos.i].repos)
  /\ RestoreRepoName \notin currentItemNames
  /\ GetRepoByName(RestoreRepoName) # Null
  /\ ghMember' = UpdateUserListsForItem(ghMember, RestoreRepoName,
                    AddRepoToListIds(MapGet(listIdMap, backup.lists[rpos.i].name), {}))
  /\ restoreResult' = [restoreResult EXCEPT !.success = @ + 1]
  /\ rpos' = [rpos EXCEPT !.j = @ + 1]
  /\ issued' = issued \cup {"updateUserListsForItem"} /\ planChoice' = planChoice
  /\ UNCHANGED <<analyzerVars, pagerVars, pc, ghStarred, ghLists, agentVars, plan, listIdMap, createI, poolVars,
                 statVars, backupVars, backup, toStar, currentListNames, currentItemNames>>

\* addRepoToList throws
RestoreAddFails ==
  /\ pc = "restore_repos"
  /\ rpos.j <= Len(backup.lists[rpos.i].repos)
  /\ RestoreRepoName \notin currentItemNames
  /\ GetRepoByName(RestoreRepoName) # Null
  /\ restoreResult' = [restoreResult EXCEPT !.failed = @ + 1]
  /\ rpos' = [rpos EXCEPT !.j = @ + 1]
  /\ issued' = issued \cup {"updateUserListsForItem"} /\ planChoice' = planChoice
  /\ UNCHANGED <<analyzerVars, pagerVars, pc, remoteVars, agentVars, plan, listIdMap, createI, poolVars,
                 statVars, backupVars, backup, toStar, currentListNames, currentItemNames>>

\* the inner loop is over: next backup list
RestoreListDone ==
  /\ pc = "restore_repos"
  /\ rpos.j > Len(backup.lists[rpos.i].repos)
  /\ rpos' = [rpos EXCEPT !.i = @ + 1, !.j = 1]
  /\ pc' = "restore_content"
  /\ UNCHANGED <<analyzerVars, pagerVars, remoteVars, agentVars, plan, listIdMap, createI, poolVars,
                 statVars, backupVars, backup, toStar, currentListNames, restoreResult,
                 currentItemNames, issued, planChoice>>

\* restore() returns its result
RestoreDone ==
  /\ pc = "restore_content"
  /\ rpos.i > Len(backup.lists)
  /\ rpos' = [rpos EXCEPT !.phase = "finished"]
  /\ pc' = "done"
  /\ UNCHANGED <<analyzerVars, pagerVars, remoteVars, agentVars, plan, listIdMap, createI, poolVars,
                 statVars, backupVars, backup, toStar, currentListNames, restoreResult,
                 currentItemNames, issued, planChoice>>

RestoreNext ==
  \/ RestoreNothing
  \/ \E b \in BackupFiles : RestoreSelect(b)
  \/ \E c \in BOOLEAN : RestoreConfirm(c)
  \/ RestoreFetch
  \/ RestoreThrows
  \/ RestoreStarSucceeds
  \/ RestoreStarFails
  \/ RestoreStarDone
  \/ RestoreCreateSkip
  \/ RestoreCreateSucceeds
  \/ RestoreCreateFails
  \/ RestoreCreateDone
  \/ RestoreListSkip
  \/ RestoreListItems
  \/ RestoreListDone
  \/ RestoreRepoSkip
  \/ RestoreAddSucceeds
  \/ RestoreAddFails
  \/ RestoreDone

(***************************************************************************)
(* RepoAnalyzer: the text of an LLM response and the JSON read from it     *)
(***************************************************************************)
\* A response text is a sequence of tokens <<kind, content>>: punctuation
\* "p", a JSON string literal "s", a JSON number literal "n", a word "w".
P(c) == <<"p", c>>
S(c) == <<"s", c>>
N(c) == <<"n", c>>
W(c) == <<"w", c>>

\* JavaScript values read from JSON; JNull is also the null of parseJSON
JUndefined == [kind |-> "undefined", s |-> "", keys |-> <<>>, items |-> <<>>]
JNull == [kind |-> "null", s |-> "", keys |-> <<>>, items |-> <<>>]
JString(c) == [kind |-> "string", s |-> c, keys |-> <<>>, items |-> <<>>]
JNumber(c) == [kind |-> "number", s |-> c, keys |-> <<>>, items |-> <<>>]
JArray(items) == [kind |-> "array", s |-> "", keys |-> <<>>, items |-> items]
JObject(keys, items) == [kind |-> "object", s |-> "", keys |-> keys, items |-> items]

\* property read v.key (v?.key on null): the last member named key, else undefined
HasKey(v, key) == v.kind = "object" /\ \E k \in 1..Len(v.keys) : v.keys[k] = key
Get(v, key) ==
  v.items[CHOOSE k \in 1..Len(v.keys) :
            v.keys[k] = key /\ \A m \in (k + 1)..Len(v.keys) : v.keys[m] # key]

\* JSON.parse, a recursive descent over the tokens; ok = FALSE is a SyntaxError
SyntaxError == [ok |-> FALSE, val |-> JNull, next |-> 0]
Parsed(v, n) == [ok |-> TRUE, val |-> v, next |-> n]

RECURSIVE ParseValue(_, _), ParseElements(_, _, _), ParseMembers(_, _, _, _)
ParseValue(t, i) ==
  IF i > Len(t) THEN SyntaxError
  ELSE CASE t[i] = P("[") ->
              IF i < Len(t) /\ t[i + 1] = P("]") THEN Parsed(JArray(<<>>), i + 2)
              ELSE ParseElements(t, i + 1, <<>>)
         [] t[i] = P("{") ->
              IF i < Len(t) /\ t[i + 1] = P("}") THEN Parsed(JObject(<<>>, <<>>), i + 2)
              ELSE ParseMembers(t, i + 1, <<>>, <<>>)
         [] t[i][1] = "s" -> Parsed(JString(t[i][2]), i + 1)
         [] t[i][1] = "n" -> Parsed(JNumber(t[i][2]), i + 1)
         [] t[i] = W("null") -> Parsed(JNull, i + 1)
         [] OTHER -> SyntaxError
ParseElements(t, i, acc) ==
  LET v == ParseValue(t, i) IN
  IF ~v.ok \/ v.next > Len(t) THEN SyntaxError
  ELSE IF t[v.next] = P(",") THEN ParseElements(t, v.next + 1, Append(acc, v.val))
  ELSE IF t[v.next] = P("]") THEN Parsed(JArray(Append(acc, v.val)), v.next + 1)
  ELSE SyntaxError
ParseMembers(t, i, keys, acc) ==
  IF i + 1 > Len(t) THEN SyntaxError
  ELSE IF t[i][1] # "s" \/ t[i + 1] # P(":") THEN SyntaxError
  ELSE LET v == ParseValue(t, i + 2) IN
       IF ~v.ok \/ v.next > Len(t) THEN SyntaxError
       ELSE IF t[v.next] = P(",")
            THEN ParseMembers(t, v.next + 1, Append(keys, t[i][2]), Append(acc, v.val))
       ELSE IF t[v.next] = P("}")
            THEN Parsed(JObject(Append(keys, t[i][2]), Append(acc, v.val)), v.next + 1)
       ELSE SyntaxError

JSONparse(t) ==
  LET v == ParseValue(t, 1) IN
  IF v.ok /\ v.next = Len(t) + 1 THEN v ELSE SyntaxError

\* text.match(/\[[\s\S]*\]/) and text.match(/\{[\s\S]*\}/): from the first
\* opening bracket to the last closing one; <<>> when there is no match
Match(t, open, close) ==
  LET os == {i \in 1..Len(t) : t[i] = P(open)}
      cs == {j \in 1..Len(t) : t[j] = P(close)}
  IN IF os = {} \/ cs = {} THEN <<>>
     ELSE LET a == CHOOSE i \in os : \A k \in os : i <= k
              b == CHOOSE j \in cs : \A k \in cs : k <= j
          IN IF a < b THEN SubSeq(t, a, b) ELSE <<>>

parseJSON(text) ==
  LET arrayMatch == Match(text, "[", "]")
      objectMatch == Match(text, "{", "}")
      array == JSONparse(arrayMatch)
      object == JSONparse(objectMatch)
  IN IF arrayMatch # <<>> THEN (IF array.ok THEN array.val ELSE JNull)
     ELSE IF objectMatch # <<>> THEN (IF object.ok THEN object.val ELSE JNull)
     ELSE JNull

\* the text of a value as JSON.stringify writes it
RECURSIVE Stringify(_), StringifyItems(_, _), StringifyMembers(_, _, _)
Stringify(v) ==
  CASE v.kind = "string" -> <<S(v.s)>>
    [] v.kind = "number" -> <<N(v.s)>>
    [] v.kind = "array" -> <<P("[")>> \o StringifyItems(v.items, 1) \o <<P("]")>>
    [] v.kind = "object" -> <<P("{")>> \o StringifyMembers(v.keys, v.items, 1) \o <<P("}")>>
    [] OTHER -> <<W("null")>>
StringifyItems(items, k) ==
  IF k > Len(items) THEN <<>>
  ELSE Stringify(items[k])
         \o (IF k < Len(items) THEN <<P(",")>> ELSE <<>>)
         \o StringifyItems(items, k + 1)
StringifyMembers(keys, items, k) ==
  IF k > Len(keys) THEN <<>>
  ELSE <<S(keys[k]), P(":")>> \o Stringify(items[k])
         \o (IF k < Len(keys) THEN <<P(",")>> ELSE <<>>)
         \o StringifyMembers(keys, items, k + 1)

\* truthiness of a value (if (v), v || w, !v)
Truthy(v) ==
  CASE v.kind \in {"undefined", "null"} -> FALSE
    [] v.kind = "string" -> v.s # ""
    [] v.kind = "number" -> v.s # "0"
    [] OTHER -> TRUE

\* v?.key of a parsed value and v.key of an array element that is not null
Field(v, key) == IF HasKey(v, key) THEN Get(v, key) ELSE JUndefined

(***************************************************************************)
(* RepoAnalyzer: what the LLM may answer                                   *)
(***************************************************************************)
MaxTextLen == 2
MaxEntries == 2

Alphabet == {P("{"), P("}"), P("["), P("]"), P(","), N("1")}
ShortTexts == UNION {[1..n -> Alphabet] : n \in 0..MaxTextLen}

\* a response made of the JSON text alone or with text around it
Surrounded(json) == {json, <<W("Sure:")>> \o json \o <<W("Done.")>>}

\* answers in the format of the category suggestion prompt
ListEntry(n, d) == JObject(<<"name", "description">>, <<JString(n), JString(d)>>)
ListEntries == {ListEntry(n, "d") : n \in {"AI", "Web"}}
ListsObjects == {JObject(<<"lists">>, <<JArray(es)>>) : es \in SeqsUpTo(ListEntries, MaxEntries)}
ListsAnswers == UNION {Surrounded(Stringify(o)) : o \in ListsObjects}

\* answers in the format of the cleanup prompt
UnstarEntry(r, why) == JObject(<<"repo", "reason">>, <<JString(r), JString(why)>>)
UnstarEntries == {UnstarEntry(r, "stale") : r \in Range(RepoOrder)}
UnstarObjects == {JObject(<<"unstar">>, <<JArray(es)>>) : es \in SeqsUpTo(UnstarEntries, MaxEntries)}
UnstarTexts == UNION {Surrounded(Stringify(o)) : o \in UnstarObjects}

\* answers in the formats of the classification prompt: an array of entries,
\* bare or as the field repos of an object
FinalizedNames == <<"AI", "Web">>
ListValues == {JNumber(c) : c \in {"-1", "0", "1", "2", "3", "1.5"}}
                \cup {JString(c) : c \in {"2", " 1", "2abc", "abc"}}
CategorizeEntry(r, l) ==
  JObject(<<"repo", "action", "list">>, <<JString(r), JString("categorize"), l>>)
ActionEntry(r, a) == JObject(<<"repo", "action">>, <<JString(r), JString(a)>>)
ClassifyEntries ==
  {CategorizeEntry(r, l) : r \in Repos, l \in ListValues}
    \cup {ActionEntry(r, a) : r \in Repos, a \in {"categorize", "keep", "unstar"}}
ClassifyArrays ==
  {JArray(es) : es \in SeqsUpTo(ClassifyEntries, 1)}
    \cup {JArray(<<CategorizeEntry("o/r1", JNumber("1")), CategorizeEntry("o/r2", JNumber("2"))>>),
          JArray(<<ActionEntry("o/r2", "unstar"), CategorizeEntry("o/r1", JNumber("2"))>>),
          JArray(<<ActionEntry("o/gone", "unstar")>>)}
ClassifyTexts ==
  UNION {Surrounded(Stringify(a)) \cup Surrounded(Stringify(JObject(<<"repos">>, <<a>>))) :
           a \in ClassifyArrays}

ListsResponses == ShortTexts \cup ListsAnswers
UnstarResponses == ShortTexts \cup UnstarTexts
ClassifyResponses == ShortTexts \cup ClassifyTexts
Answers(t) ==
  CASE t = "generateListSuggestions" -> ListsResponses
    [] t = "analyzeForUnstar" -> UnstarResponses
    [] t = "categorizeRepos" -> ClassifyResponses
    [] OTHER -> ShortTexts

(***************************************************************************)
(* RepoAnalyzer.callLLMForJSON                                             *)
(***************************************************************************)
maxRetries == 3

\* the loop condition after a failed attempt: attempt + 1 <= maxRetries
AttemptsRemain_OneMore(att) == att <= maxRetries
AttemptsRemain(att) == att < maxRetries

\* an attempt whose request is answered with a text; the text is a local of
\* the loop body and is gone when the attempt has failed
CallLLMResponds(text) ==
  /\ apc = "call"
  /\ parsed' = parseJSON(text)
  /\ IF parsed' # JNull
     THEN /\ llmCalls' = Append(llmCalls, "parsed")
          /\ response' = text
          /\ apc' = "returned" /\ attempt' = attempt
     ELSE /\ llmCalls' = Append(llmCalls, "unparsable")
          /\ response' = <<>>
          /\ attempt' = attempt + 1
          /\ apc' = IF AttemptsRemain(attempt) THEN "call" ELSE "returned"
  /\ UNCHANGED <<task, returned, repos, batchStart, analysisResults, listNames>>
  /\ UNCHANGED <<pc, remoteVars, agentVars, plan, listIdMap, createI, poolVars, statVars,
                 backupVars, restoreVars, issued, planChoice, pagerVars>>

\* an attempt whose request fails (fetch rejects or the status is not ok)
CallLLMThrows ==
  /\ apc = "call"
  /\ llmCalls' = Append(llmCalls, "error")
  /\ IF AttemptsRemain(attempt)
     THEN apc' = "call" /\ attempt' = attempt + 1
     ELSE apc' = "thrown" /\ attempt' = attempt
  /\ UNCHANGED <<task, response, parsed, returned, repos, batchStart, analysisResults, listNames>>
  /\ UNCHANGED <<pc, remoteVars, agentVars, plan, listIdMap, createI, poolVars, statVars,
                 backupVars, restoreVars, issued, planChoice, pagerVars>>

(***************************************************************************)
(* RepoAnalyzer.suggestLists                                               *)
(***************************************************************************)
ListSuggestionOf(list) == [name |-> Field(list, "name"), description |-> Field(list, "description")]

\* parsed.lists.map(...) throws a TypeError on a value without map and on a
\* null element
SuggestListsThrowsOn(p) ==
  /\ Truthy(Field(p, "lists"))
  /\ \/ Field(p, "lists").kind # "array"
     \/ \E k \in 1..Len(Field(p, "lists").items) : Field(p, "lists").items[k] = JNull

suggestLists(p) ==
  IF ~Truthy(Field(p, "lists")) THEN <<>>
  ELSE [k \in 1..Len(Field(p, "lists").items) |-> ListSuggestionOf(Field(p, "lists").items[k])]

\* generateListSuggestions returns what suggestLists returns
SuggestListsReturns ==
  /\ apc = "returned" /\ task = "generateListSuggestions"
  /\ IF SuggestListsThrowsOn(parsed)
     THEN apc' = "thrown" /\ returned' = returned
     ELSE apc' = "done" /\ returned' = suggestLists(parsed)
  /\ UNCHANGED <<task, attempt, response, parsed, llmCalls, repos, batchStart, analysisResults, listNames>>
  /\ UNCHANGED <<pc, remoteVars, agentVars, plan, listIdMap, createI, poolVars, statVars,
                 backupVars, restoreVars, issued, planChoice, pagerVars>>

(***************************************************************************)
(* RepoAnalyzer.analyzeForUnstar                                           *)
(***************************************************************************)
\* batchSize of analyzeForUnstar, scaled down from 50
UnstarBatchSize == 2

Batch(rs, i, size) == SubSeq(rs, i + 1, Min(i + size, Len(rs)))

RepoSuggestion(r, a, l, why) == [repo |-> r, action |-> a, suggestedList |-> l, reason |-> why]

\* analyzeUnstarBatch: parsed?.unstar || []
analyzeUnstarBatch(p) == IF Truthy(Field(p, "unstar")) THEN Field(p, "unstar") ELSE JArray(<<>>)

\* the two loops over a batch result throw a TypeError on a value that is
\* not an array (not iterable, or without find) and on a null element
UnstarBatchThrowsOn(batchResults) ==
  \/ batchResults.kind # "array"
  \/ \E k \in 1..Len(batchResults.items) : batchResults.items[k] = JNull

\* for (const result of batchResults): entries naming one of repos
UnstarResults(batchResults, rs) ==
  LET named == SelectSeq(batchResults.items,
                         LAMBDA e : \E k \in 1..Len(rs) : Field(e, "repo") = JString(rs[k]))
  IN [k \in 1..Len(named) |->
        RepoSuggestion(Field(named[k], "repo").s, "unstar", JUndefined, Field(named[k], "reason"))]

\* for (const repo of batch): repositories no entry names
KeepResults(batchResults, batch) ==
  LET rest == SelectSeq(batch, LAMBDA r : ~\E k \in 1..Len(batchResults.items) :
                                             Field(batchResults.items[k], "repo") = JString(r))
  IN [k \in 1..Len(rest) |->
        RepoSuggestion(rest[k], "keep", JUndefined, JString("No issues found"))]

\* one turn of the batch loop after analyzeUnstarBatch has returned
AnalyzeUnstarBatchReturns ==
  /\ apc = "returned" /\ task = "analyzeForUnstar"
  /\ LET batch == Batch(repos, batchStart, UnstarBatchSize)
         batchResults == analyzeUnstarBatch(parsed)
     IN IF UnstarBatchThrowsOn(batchResults)
        THEN apc' = "thrown" /\ UNCHANGED <<batchStart, analysisResults, returned, attempt, llmCalls>>
        ELSE /\ analysisResults' = analysisResults \o UnstarResults(batchResults, repos)
                                                   \o KeepResults(batchResults, batch)
             /\ batchStart' = batchStart + UnstarBatchSize
             /\ IF batchStart + UnstarBatchSize < Len(repos)
                THEN /\ apc' = "call" /\ attempt' = 1 /\ llmCalls' = <<>>
                     /\ returned' = returned
                ELSE /\ apc' = "done" /\ UNCHANGED <<attempt, llmCalls>>
                     /\ returned' = analysisResults'
  /\ UNCHANGED <<task, response, parsed, repos, listNames>>
  /\ UNCHANGED <<pc, remoteVars, agentVars, plan, listIdMap, createI, poolVars, statVars,
                 backupVars, restoreVars, issued, planChoice, pagerVars>>

(***************************************************************************)
(* RepoAnalyzer.classifyBatch, classifyReposBatch, analyzeRepos            *)
(***************************************************************************)
\* batchSize of classifyReposBatch, scaled down from 30, and the maxBatches
\* the agent sets in debug mode, scaled down from 2
ClassifyBatchSize == 2
DebugMaxBatches == 1

\* the characters of the strings and number literals that occur as list
\* values; any other string is text without a digit
Chars(c) ==
  CASE c = "-1" -> <<"-", "1">>
    [] c = "0" -> <<"0">>
    [] c = "1" -> <<"1">>
    [] c = "2" -> <<"2">>
    [] c = "3" -> <<"3">>
    [] c = "1.5" -> <<"1", ".", "5">>
    [] c = " 1" -> <<" ", "1">>
    [] c = "2abc" -> <<"2", "a", "b", "c">>
    [] c = "abc" -> <<"a", "b", "c">>
    [] OTHER -> <<"x">>
Digit(ch) ==
  CASE ch = "0" -> 0 [] ch = "1" -> 1 [] ch = "2" -> 2 [] ch = "3" -> 3 [] ch = "4" -> 4
    [] ch = "5" -> 5 [] ch = "6" -> 6 [] ch = "7" -> 7 [] ch = "8" -> 8 [] ch = "9" -> 9
    [] OTHER -> -1

\* a JavaScript number, in tenths, or NaN
NaN == [nan |-> TRUE, tenths |-> 0]
Num(t) == [nan |-> FALSE, tenths |-> t]

\* the digits of chs from position k on: [val, next]
RECURSIVE ReadDigits(_, _, _)
ReadDigits(chs, k, acc) ==
  IF k <= Len(chs) /\ Digit(chs[k]) >= 0 THEN ReadDigits(chs, k + 1, 10 * acc + Digit(chs[k]))
  ELSE [val |-> acc, next |-> k]

\* the value of a JSON number literal
NumberOf(c) ==
  LET chs == Chars(c)
      neg == chs[1] = "-"
      int == ReadDigits(chs, IF neg THEN 2 ELSE 1, 0)
      frac == IF int.next < Len(chs) /\ chs[int.next] = "." THEN Digit(chs[int.next + 1]) ELSE 0
  IN Num((IF neg THEN -1 ELSE 1) * (10 * int.val + frac))

\* parseInt: leading blanks, a sign, then digits up to the first other character
RECURSIVE SkipBlanks(_, _)
SkipBlanks(chs, k) == IF k <= Len(chs) /\ chs[k] = " " THEN SkipBlanks(chs, k + 1) ELSE k
parseInt_Strict(chs) ==
  LET b == SkipBlanks(chs, 1)
      neg == b <= Len(chs) /\ chs[b] = "-"
      int == ReadDigits(chs, IF neg THEN b + 1 ELSE b, 0)
  IN IF int.next = (IF neg THEN b + 1 ELSE b) \/ int.next <= Len(chs) THEN NaN
     ELSE Num((IF neg THEN -1 ELSE 1) * 10 * int.val)
parseInt(chs) ==
  LET b == SkipBlanks(chs, 1)
      neg == b <= Len(chs) /\ chs[b] = "-"
      int == ReadDigits(chs, IF neg THEN b + 1 ELSE b, 0)
  IN IF int.next = (IF neg THEN b + 1 ELSE b) THEN NaN
     ELSE Num((IF neg THEN -1 ELSE 1) * 10 * int.val)

\* String(v)
RECURSIVE StringOf(_), JoinItems(_, _)
StringOf(v) ==
  CASE v.kind \in {"string", "number"} -> Chars(v.s)
    [] v.kind = "array" -> JoinItems(v.items, 1)
    [] v.kind = "object" -> <<"[", "o", "b", "j", "e", "c", "t", " ", "O", "b", "j", "e", "c", "t", "]">>
    [] v.kind = "null" -> <<"n", "u", "l", "l">>
    [] OTHER -> <<"u", "n", "d", "e", "f", "i", "n", "e", "d">>
JoinItems(items, k) ==
  IF k > Len(items) THEN <<>>
  ELSE (IF items[k].kind \in {"null", "undefined"} THEN <<>> ELSE StringOf(items[k]))
         \o (IF k < Len(items) THEN <<",">> ELSE <<>>)
         \o JoinItems(items, k + 1)

\* typeof r.list === "number" ? r.list - 1 : parseInt(String(r.list)) - 1
ListIndex(list) ==
  LET n == IF list.kind = "number" THEN NumberOf(list.s) ELSE parseInt(StringOf(list))
  IN IF n.nan THEN NaN ELSE Num(n.tenths - 10)

\* listNames[listIndex]: undefined unless listIndex is an index of the array
ListAt(names, idx) ==
  IF ~idx.nan /\ idx.tenths % 10 = 0 /\ idx.tenths >= 0 /\ idx.tenths < 10 * Len(names)
  THEN JString(names[(idx.tenths \div 10) + 1])
  ELSE JUndefined

ClassifyResult(r, a, l, why) == [repo |-> r, action |-> a, list |-> l, reason |-> why]
OrElse(v, w) == IF Truthy(v) THEN v ELSE w

\* the map callback of classifyBatch
ClassifyEntry(r, names) ==
  IF Field(r, "action") = JString("categorize")
  THEN LET listIndex == ListIndex(Field(r, "list")) IN
       IF ~listIndex.nan /\ listIndex.tenths >= 0 /\ listIndex.tenths < 10 * Len(names)
       THEN ClassifyResult(Field(r, "repo"), JString("categorize"), ListAt(names, listIndex),
                           OrElse(Field(r, "reason"), JString("")))
       ELSE ClassifyResult(Field(r, "repo"), JString("keep"), JUndefined,
                           JString("Invalid list index"))
  ELSE ClassifyResult(Field(r, "repo"), OrElse(Field(r, "action"), JString("keep")), JUndefined,
                      OrElse(Field(r, "reason"), JString("")))

\* Array.isArray(parsed) ? parsed : parsed?.repos
RepoResults(p) == IF p.kind = "array" THEN p ELSE Field(p, "repos")

\* reading r.action of a null element throws a TypeError
ClassifyBatchThrowsOn(p) ==
  /\ RepoResults(p).kind = "array"
  /\ \E k \in 1..Len(RepoResults(p).items) : RepoResults(p).items[k] = JNull

classifyBatch(p, batch, names) ==
  IF RepoResults(p).kind # "array"
  THEN [k \in 1..Len(batch) |->
          ClassifyResult(JString(batch[k]), JString("keep"), JUndefined, JString("Parse error"))]
  ELSE [k \in 1..Len(RepoResults(p).items) |-> ClassifyEntry(RepoResults(p).items[k], names)]

\* analyzeRepos: the suggestion made from one result of a known repository
SuggestionOf(result) ==
  IF result.action = JString("unstar")
  THEN RepoSuggestion(result.repo.s, "unstar", JUndefined, result.reason)
  ELSE IF Truthy(result.list)
       THEN RepoSuggestion(result.repo.s, "categorize", result.list, result.reason)
       ELSE RepoSuggestion(result.repo.s, "keep", JUndefined, result.reason)
analyzeRepos(batchResults, rs) ==
  LET known == SelectSeq(batchResults, LAMBDA res : \E k \in 1..Len(rs) : res.repo = JString(rs[k]))
  IN [k \in 1..Len(known) |-> SuggestionOf(known[k])]

\* in debug mode the repositories after the last allowed batch are kept
DebugSkipped_FromNext(rs, from) ==
  [k \in 1..(Len(rs) - from - 1) |->
     ClassifyResult(JString(rs[from + 1 + k]), JString("keep"), JUndefined, JString("[debug] skipped"))]
DebugSkipped(rs, from) ==
  [k \in 1..(Len(rs) - from) |->
     ClassifyResult(JString(rs[from + k]), JString("keep"), JUndefined, JString("[debug] skipped"))]

\* one turn of the batch loop of classifyReposBatch after classifyBatch has
\* returned, and the end of categorizeRepos after the last turn
ClassifyBatchReturns ==
  /\ apc = "returned" /\ task = "categorizeRepos"
  /\ IF ClassifyBatchThrowsOn(parsed)
     THEN apc' = "thrown" /\ UNCHANGED <<batchStart, analysisResults, returned, attempt, llmCalls>>
     ELSE LET batch == Batch(repos, batchStart, ClassifyBatchSize)
              next == batchStart + ClassifyBatchSize
              capped == debugMode /\ next < Len(repos)
                          /\ next \div ClassifyBatchSize >= DebugMaxBatches
              all == analysisResults \o classifyBatch(parsed, batch, listNames)
                       \o (IF capped THEN DebugSkipped(repos, next) ELSE <<>>)
          IN /\ analysisResults' = all
             /\ batchStart' = next
             /\ IF next < Len(repos) /\ ~capped
                THEN /\ apc' = "call" /\ attempt' = 1 /\ llmCalls' = <<>>
                     /\ returned' = returned
                ELSE /\ apc' = "done" /\ UNCHANGED <<attempt, llmCalls>>
                     /\ returned' = analyzeRepos(all, repos)
  /\ UNCHANGED <<task, response, parsed, repos, listNames>>
  /\ UNCHANGED <<pc, remoteVars, agentVars, plan, listIdMap, createI, poolVars, statVars,
                 backupVars, restoreVars, issued, planChoice, pagerVars>>

AnalyzerNext ==
  \/ \E text \in Answers(task) : CallLLMResponds(text)
  \/ CallLLMThrows
  \/ SuggestListsReturns
  \/ AnalyzeUnstarBatchReturns
  \/ ClassifyBatchReturns

(***************************************************************************)
(* GitHubClient.getStarredRepos                                            *)
(***************************************************************************)
\* perPage, scaled down from 100
perPage == 2
PageConcurrency == 3
MaxStarred == 9
MaxCap == 5

CeilDiv(a, b) == (a + b - 1) \div b

\* the server: page p of the starred repositories, and the Link header of
\* the first page: none when there is one page, else the last page number in
\* the form the client reads ("last") or in another form ("other")
PageOf(p) == [k \in 1..(Min(p * perPage, total) - Min((p - 1) * perPage, total)) |->
                (p - 1) * perPage + k]
Headers(n) == IF n > perPage THEN {"last", "other"} ELSE {"none", "other"}

\* lastPageMatch?.[1] ? parseInt(lastPageMatch[1], 10) : 1
TotalPages == IF header = "last" THEN CeilDiv(total, perPage) ELSE 1
\* Math.min(totalPages, maxCount ? Math.ceil(maxCount / perPage) : totalPages)
PagesToFetch == Min(TotalPages, IF maxCount # 0 THEN CeilDiv(maxCount, perPage) ELSE TotalPages)

RECURSIVE Flat(_)
Flat(pages) == IF pages = <<>> THEN <<>> ELSE Head(pages) \o Flat(Tail(pages))

\* the pages of one batch, in the order of the requests
BatchPages(i) == [k \in 1..(Min(i + PageConcurrency - 1, pagesToFetch) - i + 1) |-> i + k - 1]

\* the first request and everything up to the first batch
FirstPage ==
  /\ gpc = "first" /\ read = "getStarredRepos"
  /\ requested' = Append(requested, 1)
  /\ arrivals' = Append(arrivals, 1)
  /\ IF Len(PageOf(1)) = 0
     THEN /\ gpc' = "done" /\ fetched' = <<>>
          /\ UNCHANGED <<allResponses, pagesToFetch, pageI>>
     ELSE /\ allResponses' = <<PageOf(1)>>
          /\ pagesToFetch' = PagesToFetch
          /\ pageI' = 2
          /\ gpc' = IF 2 <= PagesToFetch THEN "batch" ELSE "transform"
          /\ fetched' = fetched
  /\ UNCHANGED <<read, total, header, maxCount, pending, listNodes, cursor, cursorsSent, pageInfos>>
  /\ UNCHANGED <<pc, remoteVars, agentVars, plan, listIdMap, createI, poolVars, statVars,
                 backupVars, restoreVars, issued, planChoice, analyzerVars>>

\* a request of getStarredRepos is rejected
PageFails ==
  /\ read = "getStarredRepos"
  /\ \/ gpc = "first" /\ requested' = Append(requested, 1)
     \/ gpc = "await" /\ pending # {} /\ requested' = requested
  /\ gpc' = "thrown"
  /\ UNCHANGED <<read, total, header, maxCount, allResponses, pagesToFetch, pageI, pending,
                 arrivals, fetched, listNodes, cursor, cursorsSent, pageInfos>>
  /\ UNCHANGED <<pc, remoteVars, agentVars, plan, listIdMap, createI, poolVars, statVars,
                 backupVars, restoreVars, issued, planChoice, analyzerVars>>

\* the requests of one batch are sent together
IssueBatch ==
  /\ gpc = "batch"
  /\ pending' = Range(BatchPages(pageI))
  /\ requested' = requested \o BatchPages(pageI)
  /\ gpc' = "await"
  /\ UNCHANGED <<read, total, header, maxCount, allResponses, pagesToFetch, pageI,
                 arrivals, fetched, listNodes, cursor, cursorsSent, pageInfos>>
  /\ UNCHANGED <<pc, remoteVars, agentVars, plan, listIdMap, createI, poolVars, statVars,
                 backupVars, restoreVars, issued, planChoice, analyzerVars>>

\* the response of one page of the batch arrives
PageArrives(p) ==
  /\ gpc = "await" /\ p \in pending
  /\ pending' = pending \ {p}
  /\ arrivals' = Append(arrivals, p)
  /\ UNCHANGED <<gpc, read, total, header, maxCount, allResponses, pagesToFetch, pageI,
                 requested, fetched, listNodes, cursor, cursorsSent, pageInfos>>
  /\ UNCHANGED <<pc, remoteVars, agentVars, plan, listIdMap, createI, poolVars, statVars,
                 backupVars, restoreVars, issued, planChoice, analyzerVars>>

\* results of Promise.all(batch): one per request, in the order of the requests
BatchResults_AsArrived(i, arr) == SelectSeq(arr, LAMBDA p : p \in Range(BatchPages(i)))
BatchResults(i, arr) == BatchPages(i)

\* Promise.all resolves, the pages are pushed and the loop goes on
BatchSettles ==
  /\ gpc = "await" /\ pending = {}
  /\ allResponses' = allResponses
                       \o [k \in 1..Len(BatchPages(pageI)) |-> PageOf(BatchResults(pageI, arrivals)[k])]
  /\ pageI' = pageI + PageConcurrency
  /\ gpc' = IF pageI + PageConcurrency <= pagesToFetch THEN "batch" ELSE "transform"
  /\ UNCHANGED <<read, total, header, maxCount, pagesToFetch, pending,
                 arrivals, requested, fetched, listNodes, cursor, cursorsSent, pageInfos>>
  /\ UNCHANGED <<pc, remoteVars, agentVars, plan, listIdMap, createI, poolVars, statVars,
                 backupVars, restoreVars, issued, planChoice, analyzerVars>>

\* step 3: the repositories of the pages, cut at maxCount
Transformed(pages) ==
  IF maxCount # 0 /\ Len(Flat(pages)) >= maxCount THEN SubSeq(Flat(pages), 1, maxCount)
  ELSE Flat(pages)

Transform ==
  /\ gpc = "transform"
  /\ fetched' = Transformed(allResponses)
  /\ gpc' = "done"
  /\ UNCHANGED <<read, total, header, maxCount, allResponses, pagesToFetch, pageI, pending,
                 arrivals, requested, listNodes, cursor, cursorsSent, pageInfos>>
  /\ UNCHANGED <<pc, remoteVars, agentVars, plan, listIdMap, createI, poolVars, statVars,
                 backupVars, restoreVars, issued, planChoice, analyzerVars>>

(***************************************************************************)
(* GitHubClient.getListItems                                               *)
(***************************************************************************)
\* items(first: 100), scaled down from 100
ItemsPerPage == 2
MaxNodes == 5

\* the server: the nodes after a cursor and the pageInfo that goes with them
NodesAfter(c) == SubSeq(listNodes, c + 1, Min(c + ItemsPerPage, Len(listNodes)))
PageInfoAfter(c) ==
  [hasNextPage |-> c + ItemsPerPage < Len(listNodes),
   endCursor |-> IF Len(NodesAfter(c)) = 0 THEN NoCursor ELSE c + Len(NodesAfter(c))]

\* if (!repo.nameWithOwner) continue
Named_All(node) == TRUE
Named(node) == node # 0

\* one turn of the loop: request, push, break or move the cursor
ListItemsPage ==
  /\ gpc = "items" /\ read = "getListItems"
  /\ cursorsSent' = Append(cursorsSent, cursor)
  /\ pageInfos' = Append(pageInfos, PageInfoAfter(cursor))
  /\ fetched' = fetched \o SelectSeq(NodesAfter(cursor), Named)
  /\ IF ~PageInfoAfter(cursor).hasNextPage
     THEN gpc' = "done" /\ cursor' = cursor
     ELSE gpc' = "items" /\ cursor' = PageInfoAfter(cursor).endCursor
  /\ UNCHANGED <<read, total, header, maxCount, allResponses, pagesToFetch, pageI, pending,
                 arrivals, requested, listNodes>>
  /\ UNCHANGED <<pc, remoteVars, agentVars, plan, listIdMap, createI, poolVars, statVars,
                 backupVars, restoreVars, issued, planChoice, analyzerVars>>

\* the request is rejected
ListItemsFails ==
  /\ gpc = "items" /\ read = "getListItems"
  /\ cursorsSent' = Append(cursorsSent, cursor)
  /\ gpc' = "thrown"
  /\ UNCHANGED <<read, total, header, maxCount, allResponses, pagesToFetch, pageI, pending,
                 arrivals, requested, fetched, listNodes, cursor, pageInfos>>
  /\ UNCHANGED <<pc, remoteVars, agentVars, plan, listIdMap, createI, poolVars, statVars,
                 backupVars, restoreVars, issued, planChoice, analyzerVars>>

PagerNext ==
  \/ FirstPage
  \/ PageFails
  \/ IssueBatch
  \/ \E p \in 1..CeilDiv(MaxStarred, perPage) : PageArrives(p)
  \/ BatchSettles
  \/ Transform
  \/ ListItemsPage
  \/ ListItemsFails

(***************************************************************************)
(* Spec: one session of the agent from the mode prompt on                  *)
(***************************************************************************)
\* no analysis and no read is running
AnalyzerIdle ==
  /\ apc = "idle" /\ task = "none" /\ attempt = 1
  /\ response = <<>> /\ parsed = JNull /\ llmCalls = <<>> /\ returned = <<>>
  /\ repos = <<>> /\ batchStart = 0 /\ analysisResults = <<>> /\ listNames = <<>>
PagerLocals ==
  /\ allResponses = <<>> /\ pagesToFetch = 0 /\ pageI = 0 /\ pending = {}
  /\ arrivals = <<>> /\ requested = <<>> /\ fetched = <<>>
  /\ cursor = NoCursor /\ cursorsSent = <<>> /\ pageInfos = <<>>
PagerIdle ==
  /\ gpc = "idle" /\ read = "none"
  /\ total = 0 /\ header = "none" /\ maxCount = 0 /\ listNodes = <<>>
  /\ PagerLocals

InitLocals ==
  /\ stars = <<>> /\ lists = <<>>
  /\ canCreateLists = FALSE
  /\ finalizedLists = <<>> /\ repoSuggestions = <<>>
  /\ plan = NoPlan
  /\ flow = "none" /\ ops = 0
  /\ listIdMap = <<>>
  /\ createI = 1
  /\ work = <<>> /\ batchI = 0 /\ inflight = {} /\ results = ZeroBag(Outcomes)
  /\ reqs = <<>>
  /\ addSuccess = 0 /\ addSkipped = 0 /\ addFailed = 0
  /\ skipReasons = ZeroBag(SkipKeys) /\ failReasons = ZeroBag(Errors)
  /\ unstarSuccess = 0 /\ unstarFailed = 0 /\ unstarFailReasons = ZeroBag(Errors)
  /\ backupFile = NoBackup /\ backupAnswer = "none"
  /\ backup = NoBackup
  /\ toStar = <<>>
  /\ currentListNames = {}
  /\ restoreResult = [success |-> 0, failed |-> 0]
  /\ rpos = [phase |-> "none", i |-> 1, j |-> 1]
  /\ currentItemNames = {}
  /\ issued = {} /\ planChoice = NoAnswer

\* the account at the start of a session: one starred repository, no list or
\* the list "AI" with or without the repository
Init ==
  /\ ghStarred = {"o/r1"}
  /\ ghLists = <<[name |-> "AI", description |-> Null]>>
  /\ ghMember = [r \in Repos |-> IF r = "o/r1" THEN {1} ELSE {}]
  /\ pc = "start"
  /\ mode = "none"
  /\ InitLocals
  /\ AnalyzerIdle /\ PagerIdle

SessionNext ==
  \/ \E m \in Modes : Run(m)
  \/ \E m \in Modes : RunNoTokens(m)
  \/ \E can \in BOOLEAN : FetchData(can)
  \/ FetchDataFails
  \/ CreateBackupSucceeds
  \/ CreateBackupFails
  \/ \E cont \in BOOLEAN : ContinueWithoutBackup(cont)
  \/ \E a \in {"categorize", "unstar", "exit"} : MainMenu(a)
  \/ \E a \in {"use_existing", "keep_suggest", "reorganize", "view"} : HandleExistingLists(a)
  \/ \E answer \in ListSuggestionAnswers : ListManagementStage(answer)
  \/ AnalyzerThrows
  \/ \E a \in {"confirm", "edit", "cancel"} : ReviewAndFinalizeLists(a)
  \/ EditBack
  \/ \E keep \in SUBSET (1..Len(finalizedLists)) : EditRemove(keep)
  \/ \E n \in SessionNames \cup {""} : EditAdd(n, "d")
  \/ \E k \in 1..Len(finalizedLists), n \in SessionNames \cup {""} : EditRename(k, n)
  \/ \E answer \in CategorizeAnswers(stars, finalizedLists) : CategorizationStage(answer)
  \/ \E answer \in UnstarAnswers(stars) : UnstarAnalysisStage(answer)
  \/ \E c \in {"accept", "skip", "review"}, dropped \in SUBSET SessionNames :
        ReviewCategorization(c, dropped)
  \/ \E c \in {"accept", "skip", "review"}, kept \in SUBSET (1..MaxSuggestions) :
        ReviewUnstar(c, kept)
  \/ \E c \in {"execute", "remove", "regenerate", "cancel"} : ShowPlanAndModify(c)
  \/ \E t \in {"unstar", "create_list", "add_to_list"}, c \in BOOLEAN : RemoveActions(t, c)
  \/ ExecutePlanReturns
  \/ RefreshLists
  \/ RefreshListsFails
  \/ RefreshStars

Next == SessionNext \/ ExecNext \/ RestoreNext

Spec == Init /\ [][Next]_vars

(***************************************************************************)
(* SpecRestore: restore of every backup file on every small account        *)
(***************************************************************************)
RestoreInit ==
  /\ ghStarred \in SUBSET Repos
  /\ ghLists \in {ls \in BackupListSeqs : \A k \in 1..Len(ls) : ls[k].description # ""}
  /\ ghMember \in Memberships(Repos, Len(ghLists))
  /\ pc = "restore_select"
  /\ mode = "restore"
  /\ InitLocals
  /\ AnalyzerIdle /\ PagerIdle

SpecRestore == RestoreInit /\ [][RestoreNext]_vars

(***************************************************************************)
(* SpecExec: executePlan on plans large enough to fill the pool            *)
(***************************************************************************)
SmallPlan == 2

\* the k-th add_to_list action of a large plan: the third names a list that
\* does not exist, the fourth a repository that no longer resolves, the
\* fifth an existing list in another case
AddPattern(k) ==
  AddToListAction(CASE k = 3 -> MissingList
                    [] k = 5 -> "ai"
                    [] k % 2 = 1 -> "AI"
                    [] OTHER -> "Web",
                  CASE k = 4 -> GoneRepo
                    [] k % 2 = 1 -> "o/r1"
                    [] OTHER -> "o/r2")
UnstarPattern(k) == UnstarAction(IF k % 2 = 1 THEN "o/r1" ELSE "o/r2")

\* the list of the k-th create_list action: "Web", then "ai"
CreatePattern(k) == IF k = 1 THEN "Web" ELSE "ai"

ExecPlan(nC, nA, nU) ==
  [none |-> FALSE,
   actions |-> [k \in 1..nC |-> CreateListAction(CreatePattern(k), "d")]
               \o [k \in 1..nA |-> AddPattern(k)]
               \o [k \in 1..nU |-> UnstarPattern(k)]]

\* the same actions with the unstar actions first and the create_list last
Reversed(p) == [p EXCEPT !.actions = [k \in 1..Len(p.actions) |-> p.actions[Len(p.actions) + 1 - k]]]

\* small plans of every shape, plans that create two lists, and plans that
\* fill the pool in one phase
ExecShapes ==
  {<<nC, nA, nU>> \in (0..2) \X (0..MaxAdds) \X (0..MaxUnstars) :
     \/ nC <= 1 /\ nA <= SmallPlan /\ nU <= SmallPlan
     \/ nC = 2 /\ nA = 0 /\ nU <= 1
     \/ nC = 1 /\ nA = MaxAdds /\ nU = 0
     \/ nC = 0 /\ nA = 0 /\ nU = MaxUnstars}

ExecInit ==
  /\ ghStarred = Repos
  /\ ghLists = <<[name |-> "AI", description |-> Null]>>
  /\ ghMember = [r \in Repos |-> IF r = "o/r1" THEN {1} ELSE {}]
  /\ pc = "exec_entry"
  /\ mode \in {"analyze", "dryrun"}
  /\ stars = SeqOfRepos(Repos)
  /\ lists = GetLists(ghLists)
  /\ canCreateLists \in BOOLEAN
  /\ finalizedLists = <<>>
  /\ repoSuggestions = <<>>
  /\ \E sh \in ExecShapes :
        /\ plan \in {ExecPlan(sh[1], sh[2], sh[3])}
                     \cup (IF sh = <<1, SmallPlan, SmallPlan>>
                           THEN {Reversed(ExecPlan(sh[1], sh[2], sh[3]))} ELSE {})
        /\ (sh[2] > SmallPlan => canCreateLists)
  /\ flow = "categorize"
  /\ ops = 1
  /\ listIdMap = <<>>
  /\ createI = 1
  /\ work = <<>> /\ batchI = 0 /\ inflight = {} /\ results = ZeroBag(Outcomes)
  /\ reqs = <<>>
  /\ addSuccess = 0 /\ addSkipped = 0 /\ addFailed = 0
  /\ skipReasons = ZeroBag(SkipKeys) /\ failReasons = ZeroBag(Errors)
  /\ unstarSuccess = 0 /\ unstarFailed = 0 /\ unstarFailReasons = ZeroBag(Errors)
  /\ backupFile = NoBackup /\ backupAnswer = "written"
  /\ backup = NoBackup
  /\ toStar = <<>>
  /\ currentListNames = {}
  /\ restoreResult = [success |-> 0, failed |-> 0]
  /\ rpos = [phase |-> "none", i |-> 1, j |-> 1]
  /\ currentItemNames = {}
  /\ issued = {} /\ planChoice = <<"plan", "execute">>
  /\ AnalyzerIdle /\ PagerIdle

SpecExec == ExecInit /\ [][ExecNext]_vars


(***************************************************************************)
(* SpecAnalyzer: one analysis of the RepoAnalyzer on every LLM answer      *)
(***************************************************************************)
Tasks == {"generateListSuggestions", "analyzeForUnstar", "categorizeRepos"}

\* the repositories given to an analysis: one repository, or two batches
AnalysisInputs == {SubSeq(RepoOrder, 1, n) : n \in {1, Len(RepoOrder)}}

AnalyzerInit ==
  /\ ghStarred = Repos
  /\ ghLists = <<>>
  /\ ghMember = [r \in Repos |-> {}]
  /\ pc = "analysis"
  /\ InitLocals
  /\ PagerIdle
  /\ apc = "call" /\ task \in Tasks /\ attempt = 1
  /\ mode \in IF task = "categorizeRepos" THEN {"analyze", "debug"} ELSE {"analyze"}
  /\ response = <<>> /\ parsed = JNull /\ llmCalls = <<>> /\ returned = <<>>
  /\ repos \in AnalysisInputs /\ batchStart = 0 /\ analysisResults = <<>>
  /\ listNames = IF task = "categorizeRepos" THEN FinalizedNames ELSE <<>>

SpecAnalyzer == AnalyzerInit /\ [][AnalyzerNext]_vars


(***************************************************************************)
(* SpecPager: one read of the GitHubClient on every small account          *)
(***************************************************************************)
\* lists of up to MaxNodes nodes, any of them without nameWithOwner
NodeSeqs ==
  UNION {{[k \in 1..n |-> IF k \in nameless THEN 0 ELSE k] : nameless \in SUBSET (1..n)} :
           n \in 0..MaxNodes}

PagerInit ==
  /\ ghStarred = Repos
  /\ ghLists = <<>>
  /\ ghMember = [r \in Repos |-> {}]
  /\ pc = "read"
  /\ mode = "analyze"
  /\ InitLocals
  /\ AnalyzerIdle
  /\ PagerLocals
  /\ read \in {"getStarredRepos", "getListItems"}
  /\ IF read = "getStarredRepos"
     THEN /\ gpc = "first"
          /\ total \in 0..MaxStarred
          /\ header \in Headers(total)
          /\ maxCount \in 0..MaxCap
          /\ listNodes = <<>>
     ELSE /\ gpc = "items"
          /\ total = 0 /\ header = "none" /\ maxCount = 0
          /\ listNodes \in NodeSeqs

SpecPager == PagerInit /\ [][PagerNext]_vars

(***************************************************************************)
(* Claims about the bulk-write executor (checked under SpecExec)           *)
(***************************************************************************)
InPool == pc \in {"add_batch", "add_wait", "unstar_batch", "unstar_wait"}

\* C3: during the add-to-list phase and during the unstar phase at most 10
\* write requests are in flight at any moment.
C3_AtMostTenInFlight == Cardinality(inflight) <= 10

\* a full batch is in flight while more requests are waiting for the next one
C3_Witness == pc = "add_wait" /\ Cardinality(inflight) = 10 /\ Len(work) > 10

\* C4: no request of batch k+1 is started until every request of batch k has
\* settled, and the batches are taken in plan order: the requests issued so
\* far are a prefix of the work list, and whenever a request of the current
\* batch has been issued, none of an earlier batch is still in flight.
C4_BatchAwaitedBeforeNext ==
  InPool =>
    /\ \A k \in 1..Len(reqs) : reqs[k] > 0 => \A j \in 1..k : reqs[j] > 0
    /\ \A k \in inflight : k > batchI
    /\ \A j \in 1..Min(batchI, Len(reqs)) : reqs[j] > 0 /\ j \notin inflight

\* the second batch of the unstar phase is in flight
C4_Witness == pc = "unstar_wait" /\ batchI = 10 /\ inflight # {}

\* the add_to_list actions whose list and repository both resolve
ResolvableAdds ==
  SelectSeq(AddActions,
            LAMBDA a : ResolveListId(listIdMap, a.list_name) # NoId
                       /\ a.repo_full_name \in Repos)

\* C5: a failed write aborts neither its batch nor the later batches: when the
\* add phase is over, every add_to_list action whose list and repository
\* resolve has led to exactly one addRepoToList request, and when the unstar
\* phase is over every unstar action has led to exactly one unstarRepo request.
C5_OneRequestPerAction ==
  /\ (pc = "exec_unstar" /\ ~dryRun) =>
        /\ Len(work) = Len(ResolvableAdds)
        /\ \A k \in 1..Len(work) : work[k].action = ResolvableAdds[k] /\ reqs[k] = 1
  /\ (pc = "exec_end" /\ ~dryRun /\ Len(UnstarActions) > 0) =>
        /\ work = UnstarActions
        /\ \A k \in 1..Len(work) : reqs[k] = 1

\* the whole first batch of adds failed and the request of the second batch
\* was issued all the same
C5_Witness == pc = "exec_unstar" /\ ~dryRun /\ addFailed = 10 /\ addSuccess = 1

\* C6: when the add phase ends success + skipped + failed is the number of
\* add_to_list actions, when the unstar phase ends success + failed is the
\* number of unstar actions, in dry run and in real execution, and the
\* per-reason failure counts sum to the failed count.
C6_CountsAddUp ==
  /\ pc = "exec_unstar" =>
        /\ addSuccess + addSkipped + addFailed = Len(AddActions)
        /\ SumOver(failReasons, Errors) = addFailed
  /\ pc = "exec_end" =>
        /\ unstarSuccess + unstarFailed = Len(UnstarActions)
        /\ SumOver(unstarFailReasons, Errors) = unstarFailed

\* an add phase with successes, skips and failures of both reasons
C6_Witness ==
  /\ pc = "exec_unstar" /\ addSuccess > 0 /\ addSkipped > 1
  /\ failReasons["rate limited"] > 1 /\ failReasons["not resolved"] > 1

(***************************************************************************)
(* Claims about the session (checked under Spec)                           *)
(***************************************************************************)
\* C1: in the modes 'dryrun' and 'debug_dryrun' the agent issues no
\* data-modifying GitHub request (createUserList, updateUserListsForItem,
\* star, unstar) whatever the user chooses, and the account stays as it was.
C1_DryRunIssuesNoWrite ==
  mode \in {"dryrun", "debug_dryrun"} =>
    /\ issued = {}
    /\ ghStarred = {"o/r1"}
    /\ ghLists = <<[name |-> "AI", description |-> Null]>>
    /\ ghMember = [r \in Repos |-> IF r = "o/r1" THEN {1} ELSE {}]

\* the second operation of a debug dry run has passed the permission prompt,
\* "created" a list and "added" a repository
C1_Witness ==
  /\ mode = "debug_dryrun" /\ ops = 2 /\ pc = "exec_end"
  /\ ~canCreateLists /\ createI > 1 /\ addSuccess > 0

\* C2: adding a repository to a list preserves its memberships: after a
\* successful addRepoToList(L, r) of plan execution or of restore, r is in L
\* and still in every list it was in before the call.
C2_AddPreservesMemberships ==
  [][/\ \A k \in inflight :
          AddRequestSucceeds(k) =>
            /\ work[k].listId \in ghMember'[work[k].repo]
            /\ ghMember[work[k].repo] \subseteq ghMember'[work[k].repo]
     /\ RestoreAddSucceeds =>
          /\ MapGet(listIdMap, backup.lists[rpos.i].name) \in ghMember'[RestoreRepoName]
          /\ ghMember[RestoreRepoName] \subseteq ghMember'[RestoreRepoName]]_vars

\* C7: in the analyze modes no data-modifying request is issued unless the
\* backup was written or the user chose to continue without it, and when the
\* backup fails and the user declines the run is aborted with nothing
\* analysed and nothing changed.
C7_NoWriteWithoutBackup ==
  mode \in Modes \ {"restore"} =>
    /\ issued # {} => backupAnswer \in {"written", "continued"}
    /\ (ops > 0 \/ pc = "menu") => backupAnswer \in {"written", "continued"}
    /\ backupAnswer = "written" => ~backupFile.none
    /\ backupAnswer = "declined" =>
          /\ pc = "aborted" /\ issued = {} /\ ops = 0
          /\ finalizedLists = <<>> /\ repoSuggestions = <<>> /\ plan = NoPlan

\* a write was issued in a session that continued without a backup
C7_Witness == mode = "analyze" /\ backupAnswer = "continued" /\ issued # {}

\* C8: every real plan execution of a session that wrote its backup starts
\* with a backup that holds the starred repositories and the lists with their
\* contents as they are on the account, the changes of the previous
\* executions included.
C8_BackupBeforeEachExecution ==
  (/\ pc = "exec_entry" /\ ~dryRun /\ backupAnswer = "written"
   /\ ~plan.none /\ Len(plan.actions) > 0) =>
     backupFile = MakeBackup(SeqOfRepos(ghStarred), GetLists(ghLists), ghMember)

(***************************************************************************)
(* Claims about restore (checked under SpecRestore)                        *)
(***************************************************************************)
RestoreSucceeded == pc = "done" /\ rpos.phase = "finished" /\ restoreResult.failed = 0

BackupStarsStarred == \A k \in 1..Len(backup.stars) : backup.stars[k] \in ghStarred

\* the backup lists that restore had to recreate
Recreated == {k \in 1..Len(backup.lists) : backup.lists[k].name \notin currentListNames}

BackupListsExist ==
  \A k \in 1..Len(backup.lists) :
     /\ \E n \in 1..Len(ghLists) : ghLists[n].name = backup.lists[k].name
     /\ k \in Recreated =>
          ghLists[MapGet(listIdMap, backup.lists[k].name)].name = backup.lists[k].name

\* restore steps neither unstar a repository nor delete a list
NoUnstarNoDelete ==
  /\ ghStarred \subseteq ghStarred'
  /\ Len(ghLists) <= Len(ghLists')
  /\ \A n \in 1..Len(ghLists) : ghLists'[n] = ghLists[n]

\* C9 as stated: after a restore whose remote calls all succeeded every
\* backup star is starred and every backup list exists, the lists missing by
\* name being recreated with the backup's name and description; restore
\* never unstars a repository or deletes a list.
C9_RestoreAsStated ==
  /\ [](RestoreSucceeded =>
          /\ BackupStarsStarred
          /\ BackupListsExist
          /\ \A k \in Recreated :
               ghLists[MapGet(listIdMap, backup.lists[k].name)].description
                 = backup.lists[k].description)
  /\ [][NoUnstarNoDelete]_vars

\* C9 as amended: the same, the lists missing by name being recreated with the
\* backup's name and with the backup's description when it is not empty; an
\* empty description ("" or null) is recreated as no description (null).
C9_RestoreStarsAndLists ==
  /\ [](RestoreSucceeded =>
          /\ BackupStarsStarred
          /\ BackupListsExist
          /\ \A k \in Recreated :
               ghLists[MapGet(listIdMap, backup.lists[k].name)].description
                 = (IF backup.lists[k].description = "" THEN Null
                    ELSE backup.lists[k].description))
  /\ [][NoUnstarNoDelete]_vars

\* a restore without failure that starred a repository and recreated a list
\* with a description
C9_Witness ==
  /\ RestoreSucceeded /\ Len(toStar) > 0
  /\ \E k \in Recreated : backup.lists[k].description = "d"

\* C10: after a restore whose remote calls all succeeded, each backup list
\* contains every repository the backup recorded for it (and that still
\* exists), also when the backup recorded a repository in several lists.
C10_RestoreBringsContentsBack ==
  RestoreSucceeded =>
    \A k \in 1..Len(backup.lists) :
      \A r \in Range(backup.lists[k].repos) \cap Repos :
         MapGet(listIdMap, backup.lists[k].name) \in ghMember[r]

(***************************************************************************)
(* C11: for a response whose JSON is an object with an array-valued field  *)
(* (the format {"lists": [...]}), with or without text around it,          *)
(* parseJSON returns that object, so that its named field can be read.     *)
(***************************************************************************)
Answered == llmCalls # <<>> /\ llmCalls[Len(llmCalls)] = "parsed"

C11_ObjectWithArrayFieldIsReturned ==
  \A o \in ListsObjects :
    (Answered /\ response \in Surrounded(Stringify(o))) => parsed = o

(***************************************************************************)
(* C12: when the LLM answers the category suggestion prompt in the format  *)
(* {"lists": [...]} with n entries, generateListSuggestions returns n      *)
(* suggestions with the names and descriptions of the entries, in order.   *)
(***************************************************************************)
C12_SuggestionsOfTheAnswer ==
  \A o \in ListsObjects :
    (/\ task = "generateListSuggestions" /\ apc = "done"
     /\ Answered /\ response \in Surrounded(Stringify(o)))
    => /\ Len(returned) = Len(Get(o, "lists").items)
       /\ \A k \in 1..Len(returned) :
            /\ returned[k].name = Get(Get(o, "lists").items[k], "name")
            /\ returned[k].description = Get(Get(o, "lists").items[k], "description")

(***************************************************************************)
(* C13: when the LLM answers a cleanup batch in the format                 *)
(* {"unstar": [{repo, reason}, ...]}, analyzeForUnstar records 'unstar'    *)
(* with the given reason for each repository of the batch the answer       *)
(* names and 'keep' for every other repository of the batch.               *)
(***************************************************************************)
NewResults == SubSeq(analysisResults', Len(analysisResults) + 1, Len(analysisResults'))
NamedIn(o, r) == \E k \in 1..Len(Get(o, "unstar").items) : Get(o, "unstar").items[k] = UnstarEntry(r, "stale")

C13_UnstarNamedKeepOthers ==
  [][\A o \in UnstarObjects :
       (/\ task = "analyzeForUnstar" /\ apc = "returned" /\ apc' # "returned"
        /\ Answered /\ response \in Surrounded(Stringify(o)))
       => \A r \in Range(Batch(repos, batchStart, UnstarBatchSize)) :
            \E k \in 1..Len(NewResults) :
               /\ NewResults[k].repo = r
               /\ IF NamedIn(o, r)
                  THEN NewResults[k].action = "unstar" /\ NewResults[k].reason = JString("stale")
                  ELSE NewResults[k].action = "keep"]_vars

(***************************************************************************)
(* C14: callLLMForJSON retries the whole call on a parse failure and on a  *)
(* transport error with a fixed number of attempts and no backoff: it      *)
(* sends at most 3 requests, the next request is the very next step after  *)
(* a failed attempt while attempts remain, and no request follows the      *)
(* first response that parses.                                             *)
(***************************************************************************)
LastCall == llmCalls[Len(llmCalls)]

C14_AtMostThreeAttempts ==
  /\ Len(llmCalls) <= 3
  /\ \A k \in 1..(Len(llmCalls) - 1) : llmCalls[k] # "parsed"
  /\ (llmCalls # <<>> /\ LastCall = "parsed") => apc # "call"
  /\ (llmCalls # <<>> /\ LastCall # "parsed" /\ Len(llmCalls) < 3) => apc = "call"
  /\ (llmCalls # <<>> /\ LastCall # "parsed" /\ Len(llmCalls) = 3) => apc # "call"
  /\ llmCalls = <<>> => apc = "call"

C14_Witness == llmCalls = <<"error", "unparsable", "parsed">> /\ apc = "returned"

(***************************************************************************)
(* C15: when every attempt of callLLMForJSON for a classification batch    *)
(* fails (the request failed or the response could not be parsed), every   *)
(* repository of the batch is marked 'keep' and classification goes on     *)
(* with the next batch instead of aborting.                                *)
(***************************************************************************)
AllAttemptsFailed ==
  /\ task = "categorizeRepos"
  /\ Len(llmCalls) = maxRetries
  /\ \A k \in 1..Len(llmCalls) : llmCalls[k] # "parsed"

C15_FailedBatchIsKept ==
  [][/\ (apc = "call" /\ AllAttemptsFailed') => apc' = "returned"
     /\ (AllAttemptsFailed /\ apc = "returned")
        => /\ apc' \in {"call", "done"}
           /\ \A k \in 1..Len(Batch(repos, batchStart, ClassifyBatchSize)) :
                /\ NewResults[k].repo = JString(Batch(repos, batchStart, ClassifyBatchSize)[k])
                /\ NewResults[k].action = JString("keep")]_vars

(***************************************************************************)
(* C16: a 'categorize' entry is mapped to the finalized list with its      *)
(* 1-based number; a number outside 1..N, a negative number and a value    *)
(* that is not numeric yield 'keep'.  Hence every 'categorize' suggestion  *)
(* categorizeRepos returns has a suggestedList among the N finalized       *)
(* names.                                                                  *)
(***************************************************************************)
\* the list number a list value stands for, 0 when it stands for none:
\* as the claim states it, and with the leading integer of a string counted
NumberAsStated ==
  [v \in ListValues |->
     CASE v \in {JNumber("1"), JString(" 1")} -> 1
       [] v \in {JNumber("2"), JString("2")} -> 2
       [] OTHER -> 0]
NumberAsParsed == [v \in ListValues |-> IF v = JString("2abc") THEN 2 ELSE NumberAsStated[v]]

\* the last answer is an array with the one entry 'categorize r into v'
OneEntryAnswer(r, v) ==
  /\ task = "categorizeRepos" /\ apc = "done" /\ Answered
  /\ ~(debugMode /\ Len(repos) > ClassifyBatchSize)
  /\ response \in Surrounded(Stringify(JArray(<<CategorizeEntry(r, v)>>)))
                    \cup Surrounded(Stringify(JObject(<<"repos">>, <<JArray(<<CategorizeEntry(r, v)>>)>>)))

LastReturned == returned[Len(returned)]

MappedBy(number) ==
  \A r \in Range(repos) \cap Repos, v \in ListValues :
    OneEntryAnswer(r, v) =>
      /\ returned # <<>>
      /\ LastReturned.repo = r
      /\ IF number[v] \in 1..Len(listNames)
         THEN /\ LastReturned.action = "categorize"
              /\ LastReturned.suggestedList = JString(listNames[number[v]])
         ELSE LastReturned.action = "keep"

SuggestedListsAreFinalized ==
  (task = "categorizeRepos" /\ apc = "done") =>
    \A k \in 1..Len(returned) :
      returned[k].action = "categorize" =>
        \E n \in 1..Len(listNames) : returned[k].suggestedList = JString(listNames[n])

FirstRepos(n) == [k \in 1..n |-> k]
StarsRead == read = "getStarredRepos" /\ gpc = "done"

C17_AllStarsWithoutLastPage ==
  (StarsRead /\ header = "other") =>
    fetched = FirstRepos(IF maxCount # 0 THEN Min(maxCount, total) ELSE total)

(***************************************************************************)
(* C18: with maxCount >= 1, getStarredRepos returns the first              *)
(* min(maxCount, total) starred repositories and requests no page beyond   *)
(* ceil(maxCount / perPage).                                               *)
(***************************************************************************)
C18_CapRespected ==
  (read = "getStarredRepos" /\ maxCount >= 1) =>
    /\ \A k \in 1..Len(requested) : requested[k] <= CeilDiv(maxCount, perPage)
    /\ gpc = "done" => fetched = FirstRepos(Min(maxCount, total))

(***************************************************************************)
(* C19: the pages are merged in arrival order: the returned sequence       *)
(* lists the items of the pages in the order the responses were received,  *)
(* also for the pages requested concurrently (3 at a time).  In fact the   *)
(* pages are merged in the order of their page numbers, whatever the order *)
(* of arrival.                                                             *)
(***************************************************************************)
C19_MergedInArrivalOrder ==
  StarsRead => fetched = Transformed([k \in 1..Len(arrivals) |-> PageOf(arrivals[k])])

C19_MergedInPageOrder ==
  StarsRead => fetched = Transformed([k \in 1..Len(arrivals) |-> PageOf(k)])

C19_Witness ==
  /\ StarsRead
  /\ \E k \in 1..(Len(arrivals) - 1) : arrivals[k] > arrivals[k + 1]
  /\ Len(arrivals) > 1 + PageConcurrency

(***************************************************************************)
(* C20: getListItems follows the cursor until the list is exhausted: the   *)
(* first request carries a null cursor, every further request the          *)
(* endCursor of the previous response, no request follows the first        *)
(* response with hasNextPage = false, and the result is the items of all   *)
(* pages in the order received without the nodes that have no              *)
(* nameWithOwner.                                                          *)
(***************************************************************************)
C20_CursorFollowed ==
  read = "getListItems" =>
    /\ cursorsSent # <<>> => cursorsSent[1] = NoCursor
    /\ \A k \in 2..Len(cursorsSent) :
         pageInfos[k - 1].hasNextPage /\ cursorsSent[k] = pageInfos[k - 1].endCursor
    /\ (pageInfos # <<>> /\ ~pageInfos[Len(pageInfos)].hasNextPage) => gpc = "done"
    /\ gpc = "done" =>
         /\ ~pageInfos[Len(pageInfos)].hasNextPage
         /\ fetched = SelectSeq(listNodes, LAMBDA node : node # 0)

C20_Witness ==
  /\ read = "getListItems" /\ gpc = "done"
  /\ Len(cursorsSent) = 3
  /\ Len(fetched) < Len(listNodes)

(***************************************************************************)
(* C21: in debug mode categorization sends at most maxBatches              *)
(* classification batches (maxBatches * batchSize repositories) to the     *)
(* LLM, and every repository after them is returned as 'keep' with the     *)
(* reason '[debug] skipped'.                                               *)
(***************************************************************************)
DebugLimit == DebugMaxBatches * ClassifyBatchSize

PlanCancelled == planChoice = <<"plan", "cancel">>

C22_CancelExecutesNothing ==
  [][PlanCancelled =>
       /\ issued' = issued /\ remoteVars' = remoteVars
       /\ inflight' = {} /\ reqs' = <<>>
       /\ pc = "exec_entry" => pc' = "exec_return"
       /\ pc = "exec_return" => pc' = "refresh"
       /\ pc = "refresh" => pc' = "menu" /\ ~PlanCancelled'
       /\ pc \in {"exec_entry", "exec_return", "refresh"}]_vars

C22_Witness ==
  /\ PlanCancelled /\ pc = "refresh" /\ ~dryRun
  /\ issued = {}
  /\ Len(GeneratePlan(finalizedLists, lists, repoSuggestions).actions) > 0

(***************************************************************************)
(* C23: if a plan puts the same repository into two different lists and    *)
(* every add-to-list request succeeds, the repository ends up a member of  *)
(* both lists, whatever the order in which the concurrent requests of a    *)
(* batch are served.                                                       *)
(***************************************************************************)
AddPhaseSucceeded ==
  /\ pc = "add_batch" /\ ~dryRun
  /\ batchI >= Len(work)
  /\ addFailed = 0 /\ addSuccess = Len(work)

C23_RepoInBothLists ==
  AddPhaseSucceeded =>
    \A j, k \in 1..Len(work) :
      (work[j].repo = work[k].repo /\ work[j].listId # work[k].listId) =>
        {work[j].listId, work[k].listId} \subseteq ghMember[work[j].repo]

(***************************************************************************)
(* C24: within one plan execution every list creation completes before     *)
(* the first add-to-list request starts, and every add-to-list request     *)
(* completes before the first unstar request starts, whatever the order    *)
(* of the actions in the plan.                                             *)
(***************************************************************************)
CreateRequest == CreateListSucceeds \/ CreateListFails
AddRequests == AddBatchStart /\ pc' = "add_wait"
UnstarRequests == UnstarBatchStart /\ pc' = "unstar_wait"

C24_PhasesInOrder ==
  [][/\ CreateRequest =>
          /\ issued \cap {"updateUserListsForItem", "unstar"} = {}
          /\ inflight = {}
     /\ AddRequests =>
          /\ "unstar" \notin issued
          /\ pc # "exec_create"
     /\ UnstarRequests =>
          /\ inflight = {}
          /\ pc \notin {"exec_create", "add_wait"}]_vars

C24_Witness ==
  /\ pc = "exec_end" /\ ~dryRun
  /\ Len(plan.actions) > 2
  /\ plan.actions[1].type = "unstar" /\ plan.actions[Len(plan.actions)].type = "create_list"
  /\ issued = {"createUserList", "updateUserListsForItem", "unstar"}
  /\ Len(ghLists) = 2 /\ addSuccess > 0 /\ unstarSuccess > 0

(***************************************************************************)
(* C25: list creation stops at the first createList failure and the user   *)
(* is asked how to proceed: on Cancel no add-to-list or unstar request is  *)
(* issued, and on Skip only the unstar actions of the plan are executed,   *)
(* with no further createList or addRepoToList request.                    *)
(***************************************************************************)
CreateCancelled == planChoice = <<"create_failed", "cancel">>
CreateSkipped == planChoice = <<"create_failed", "skip">>

C25_CreateFailureStops ==
  [][/\ CreateListFails => pc' = "exec_create_failed"
     /\ pc = "exec_create_failed" =>
          /\ issued' = issued /\ remoteVars' = remoteVars
          /\ planChoice'[1] = "create_failed"
     /\ CreateCancelled' =>
          /\ issued' \subseteq {"createUserList"} /\ remoteVars' = remoteVars
          /\ inflight' = {} /\ work' = <<>> /\ pc' = "exec_return"
     /\ CreateSkipped =>
          /\ ~CreateRequest /\ ~AddRequests
          /\ "updateUserListsForItem" \notin issued'
          /\ ghLists' = ghLists /\ ghMember' = ghMember
          /\ plan' = plan /\ OfType(plan.actions, "unstar") = plan.actions
          /\ UnstarRequests => work = plan.actions]_vars

C25_Witness ==
  /\ CreateSkipped /\ pc = "exec_end" /\ ~dryRun
  /\ issued = {"createUserList", "unstar"}
  /\ unstarSuccess = Len(plan.actions) /\ unstarSuccess > 0
  /\ addSuccess = 0 /\ addSkipped = 0 /\ addFailed = 0

(***************************************************************************)
(* C26: across a plan execution in which the user chooses Retry after a    *)
(* list-creation failure, any number of times, each create_list action     *)
(* leads to at most one successful createList request, so no list name     *)
(* is created twice.                                                       *)
(***************************************************************************)
\* the lists created since this.lists was read
CreatedLists == SubSeq(ghLists, Len(lists) + 1, Len(ghLists))

C26_NoListCreatedTwice ==
  \A i, j \in 1..Len(CreatedLists) :
    CreatedLists[i].name = CreatedLists[j].name => i = j

(***************************************************************************)
(* C27: removing actions from a plan deletes exactly the actions of the    *)
(* chosen type when the user confirms and changes nothing when the user    *)
(* declines; the actions of the other types remain, in their original      *)
(* relative order.                                                         *)
(***************************************************************************)
ActionTypes == {"create_list", "add_to_list", "unstar"}

\* a[i..] is b[j..] with some elements left out
RECURSIVE IsSubseq(_, _, _, _)
IsSubseq(a, b, i, j) ==
  IF i > Len(a) THEN TRUE
  ELSE IF j > Len(b) THEN FALSE
  ELSE IF a[i] = b[j] THEN IsSubseq(a, b, i + 1, j + 1)
  ELSE IsSubseq(a, b, i, j + 1)

C27_RemoveExactlyTheType ==
  [][\A type \in ActionTypes, confirm \in BOOLEAN :
       RemoveActions(type, confirm) =>
         /\ plan'.none = plan.none
         /\ IF confirm
            THEN /\ \A k \in 1..Len(plan'.actions) : plan'.actions[k].type # type
                 /\ Len(plan'.actions) = Len(plan.actions) - Len(OfType(plan.actions, type))
                 /\ IsSubseq(plan'.actions, plan.actions, 1, 1)
            ELSE plan' = plan]_vars

C27_Witness ==
  /\ pc = "plan_prompt" /\ planChoice = <<"plan", "remove">>
  /\ Len(plan.actions) > 0
  /\ OfType(plan.actions, "create_list") = <<>>
  /\ LET generated == GeneratePlan(finalizedLists, lists, repoSuggestions).actions
     IN /\ OfType(generated, "create_list") # <<>>
        /\ plan.actions = OfType(generated, "add_to_list") \o OfType(generated, "unstar")

====
